---------------------------- MODULE Spec2Model ----------------------------
(***************************************************************************)
(* State-machine model of the api-contract-guardian core:                  *)
(*   - RuleRegistry  (packages/core/src/rules/RuleRegistry.ts)             *)
(*   - RuleEngine    (packages/core/src/rules/RuleEngine.ts)               *)
(*   - ConfigParser  (packages/core/src/config/ConfigParser.ts)            *)
(*                                                                         *)
(* Encoding of JavaScript values.                                          *)
(*   - An object is a TLA+ record; an optional property that is undefined  *)
(*     is a field that is absent from the record's DOMAIN.                 *)
(*   - `boolean | RuleConfig` is a tagged union: a bare boolean b is the   *)
(*     record [bool |-> b]; a RuleConfig is a record whose fields are a    *)
(*     subset of {severity, enabled, options}.                             *)
(*   - null and undefined results are the records Null and Undefined.      *)
(*   - An optional severity argument that is not supplied is the string    *)
(*     Undef.                                                              *)
(*   - A Map is kept with its insertion order when the code reads that     *)
(*     order (rules), and as a function on its key set otherwise.          *)
(*   - Wall-clock fields (executionTime, totalTime) are not modelled.      *)
(***************************************************************************)
EXTENDS Naturals, Sequences, FiniteSets, TLC

VARIABLES
    rules,           \* RuleRegistry.rules: Map<string, Rule>, in insertion order
    ruleCategories,  \* RuleRegistry.ruleCategories: Map<RuleCategory, Set<string>>
    overrides,       \* RuleRegistry.overrides: Map<string, RuleConfig>
    call,            \* the last operation invoked on the registry / engine, with its
                     \* arguments (and, for the override operations, the overrides
                     \* map as it was before the call)
    ret,             \* what that operation returned or threw
    files,           \* the configuration files on disk: path -> content
    loadedConfigs,   \* ConfigParser.loadedConfigs: Map<string, ApiGuardianConfig>
    stack            \* the resolveExtends activations awaiting a load or a
                     \* nested resolution, outermost first

regVars == <<rules, ruleCategories, overrides>>
cfgVars == <<files, loadedConfigs, stack>>
vars == <<rules, ruleCategories, overrides, call, ret, files, loadedConfigs, stack>>

-----------------------------------------------------------------------------
(* Values *)

Null == [null |-> TRUE]
Undefined == [undefined |-> TRUE]
Undef == "undefined"

Severity == {"error", "warning", "info", "hint"}
Category == {"structural", "documentation", "rest", "governance", "security"}

\* Longest id list handed to executeAll.
MaxList == 2
\* Longest rule list handed to registerBatch.
MaxBatch == 2

\* The rule ids in play; each is registered at some times and not at others.
RegIds == {"r1", "r2"}
AllIds == RegIds

\* Documents: whether info.title is present and how many paths there are.
Specs == {[title |-> TRUE, paths |-> 1], [title |-> FALSE, paths |-> 3]}

\* defaultSeverity arguments: not supplied, or a severity.
DefaultSeverities == {Undef, "info"}

SeqsUpTo(S, n) == UNION {[1..k -> S] : k \in 0..n}

-----------------------------------------------------------------------------
(* Rule functions.  A rule function is opaque to the core; the model draws *)
(* it from a catalogue of behaviours.  Applying it either throws a message *)
(* or returns a raw value: an array of elements or something else.         *)

Truthy(v) == v # ""

Throws(msg) == [threw |-> msg]
Returns(raw) == [returned |-> raw]
Array(elems) == [array |-> elems]
NotArray == [notArray |-> TRUE]

OptionOr(options, key, dflt) ==
    IF key \in DOMAIN options /\ options[key] # 0 THEN options[key] ELSE dflt

FnApply(fn, spec, options) ==
    CASE fn = "titleCheck" ->
            Returns(Array(IF ~spec.title
                          THEN <<[message |-> "Missing info.title", path |-> "$.info.title"]>>
                          ELSE <<>>))
      [] fn = "minPaths" ->
            Returns(Array(IF spec.paths < OptionOr(options, "minPaths", 1)
                          THEN <<[message |-> "Too few paths", path |-> "$.paths"]>>
                          ELSE <<>>))
      [] fn = "throws" -> Throws(<<"Test error">>)
      [] fn = "mixed" ->
            IF spec.title THEN Returns(NotArray)
            ELSE Returns(Array(<<[primitive |-> "text"],
                                 [path |-> "$.info"],
                                 [message |-> "Issue 1", severity |-> "hint",
                                  ruleId |-> "custom", suggestion |-> "Add a title"],
                                 [message |-> "Issue 2", path |-> ""]>>))

WithId(body, id) == [k \in DOMAIN body \cup {"id"} |-> IF k = "id" THEN id ELSE body[k]]

\* The rules that get registered: two bodies for each id.
Rules ==
    { WithId(b, "r1") : b \in
        { [name |-> "Test Rule 1", severity |-> "error", category |-> "structural",
           enabled |-> TRUE, fn |-> "titleCheck"],
          [name |-> "Error Rule", severity |-> "error", category |-> "documentation",
           fn |-> "throws"] } }
    \cup
    { WithId(b, "r2") : b \in
        { [name |-> "Test Rule 3", severity |-> "info", category |-> "rest",
           enabled |-> FALSE, fn |-> "minPaths", options |-> [minPaths |-> 2]],
          [name |-> "Custom Rule", severity |-> "error", category |-> "structural",
           fn |-> "mixed", options |-> [casing |-> 1]] } }

\* The rules registerBatch draws its lists from.
BatchRules == {r \in Rules : r.fn # "mixed"}

\* Values of a rule-config map: a bare boolean or a RuleConfig.
Bool(b) == [bool |-> b]
RuleConfigs ==
    { [severity |-> "warning"],
      [options |-> [minPaths |-> 4]] }
ConfigValues == {Bool(TRUE), Bool(FALSE)} \cup RuleConfigs

\* Record<string, boolean | RuleConfig> arguments of applyOverrides.
ConfigMaps == UNION {[S -> ConfigValues] : S \in SUBSET RegIds}

-----------------------------------------------------------------------------
(* RuleRegistry: lookups *)

Has(rs, ruleId) == \E i \in 1..Len(rs) : rs[i].id = ruleId

Get(rs, ruleId) ==
    IF Has(rs, ruleId)
    THEN rs[CHOOSE i \in 1..Len(rs) : rs[i].id = ruleId]
    ELSE Undefined

\* Mutant: the ids come back latest registration first.
GetAllIdsReversed(rs) == [i \in 1..Len(rs) |-> rs[Len(rs) + 1 - i].id]

GetAllIds(rs) == [i \in 1..Len(rs) |-> rs[i].id]

GetCount(rs) == Len(rs)

GetByCategory(rs, cats, category) ==
    LET ruleIds == IF category \in DOMAIN cats THEN cats[category] ELSE {}
    IN  {Get(rs, id) : id \in {x \in ruleIds : Has(rs, x)}}

\* {...a, ...b} on option maps: b's keys win, a's other keys are kept.
Spread(a, b) == [k \in DOMAIN a \cup DOMAIN b |-> IF k \in DOMAIN b THEN b[k] ELSE a[k]]

\* x.options, spread into an object literal: undefined spreads as {}.
OptionsOf(x) == IF "options" \in DOMAIN x THEN x.options ELSE << >>

Drop(r, key) == [k \in DOMAIN r \ {key} |-> r[k]]
Put(r, key, v) == [k \in DOMAIN r \cup {key} |-> IF k = key THEN v ELSE r[k]]

\* override.enabled ?? rule.enabled: the property may stay undefined.
EffectiveEnabled(rule, override) ==
    IF "enabled" \in DOMAIN override THEN Put(rule, "enabled", override.enabled)
    ELSE rule

\* Mutant: the defaultSeverity argument is never consulted.
GetEffectiveRuleNoDefault(rs, ovs, ruleId, defaultSeverity) ==
    IF ~Has(rs, ruleId) THEN Null
    ELSE LET rule == Get(rs, ruleId)
         IN  IF ruleId \notin DOMAIN ovs THEN rule
             ELSE LET override == ovs[ruleId]
                      sev == IF "severity" \in DOMAIN override THEN override.severity
                             ELSE rule.severity
                  IN  Put([EffectiveEnabled(rule, override) EXCEPT !.severity = sev],
                          "options", Spread(OptionsOf(rule), OptionsOf(override)))

\* Mutant: the defaultSeverity argument outranks the rule's severity even when
\* no override is stored.
GetEffectiveRuleDefaultFirst(rs, ovs, ruleId, defaultSeverity) ==
    IF ~Has(rs, ruleId) THEN Null
    ELSE LET rule == Get(rs, ruleId)
         IN  IF ruleId \notin DOMAIN ovs
             THEN IF defaultSeverity # Undef
                  THEN [rule EXCEPT !.severity = defaultSeverity]
                  ELSE rule
             ELSE LET override == ovs[ruleId]
                      sev == IF "severity" \in DOMAIN override THEN override.severity
                             ELSE IF defaultSeverity # Undef THEN defaultSeverity
                             ELSE rule.severity
                  IN  Put([EffectiveEnabled(rule, override) EXCEPT !.severity = sev],
                          "options", Spread(OptionsOf(rule), OptionsOf(override)))

\* Mutant: an override's options replace the rule's options wholesale.
GetEffectiveRuleOptionsReplaced(rs, ovs, ruleId, defaultSeverity) ==
    IF ~Has(rs, ruleId) THEN Null
    ELSE LET rule == Get(rs, ruleId)
         IN  IF ruleId \notin DOMAIN ovs THEN rule
             ELSE LET override == ovs[ruleId]
                      sev == IF "severity" \in DOMAIN override THEN override.severity
                             ELSE IF defaultSeverity # Undef /\ Truthy(defaultSeverity)
                                  THEN defaultSeverity
                             ELSE rule.severity
                  IN  Put([EffectiveEnabled(rule, override) EXCEPT !.severity = sev],
                          "options", IF "options" \in DOMAIN override
                                     THEN override.options ELSE OptionsOf(rule))

GetEffectiveRule(rs, ovs, ruleId, defaultSeverity) ==
    IF ~Has(rs, ruleId) THEN Null
    ELSE LET rule == Get(rs, ruleId)
         IN  IF ruleId \notin DOMAIN ovs THEN rule
             ELSE LET override == ovs[ruleId]
                      sev == IF "severity" \in DOMAIN override THEN override.severity
                             ELSE IF defaultSeverity # Undef /\ Truthy(defaultSeverity)
                                  THEN defaultSeverity
                             ELSE rule.severity
                  IN  Put([EffectiveEnabled(rule, override) EXCEPT !.severity = sev],
                          "options", Spread(OptionsOf(rule), OptionsOf(override)))

\* Mutant: an override's enabled flag is honoured before the rule is looked up.
IsEnabledOverrideFirst(rs, ovs, ruleId) ==
    IF ruleId \in DOMAIN ovs /\ "enabled" \in DOMAIN ovs[ruleId] THEN ovs[ruleId].enabled
    ELSE Has(rs, ruleId) /\ ~("enabled" \in DOMAIN Get(rs, ruleId)
                              /\ Get(rs, ruleId).enabled = FALSE)

IsEnabled(rs, ovs, ruleId) ==
    LET rule == GetEffectiveRule(rs, ovs, ruleId, Undef)
    IN  IF rule = Null THEN FALSE
        ELSE ~("enabled" \in DOMAIN rule /\ rule.enabled = FALSE)


-----------------------------------------------------------------------------
(* RuleRegistry: state changes *)

AlreadyRegistered(ruleId) == <<"Rule with ID", ruleId, "is already registered">>

\* this.rules.set(rule.id, rule) for an id the map does not hold.
RulesSet(rs, rule) == Append(rs, rule)

\* Mutant: the category's set is created anew on every registration.
TrackAnew(cats, rule) ==
    [c \in DOMAIN cats \cup {rule.category} |->
        IF c = rule.category THEN {rule.id} ELSE cats[c]]

\* The category index after the rule's id is added under rule.category.
Track(cats, rule) ==
    LET had == IF rule.category \in DOMAIN cats THEN cats[rule.category] ELSE {}
    IN  [c \in DOMAIN cats \cup {rule.category} |->
            IF c = rule.category THEN had \cup {rule.id} ELSE cats[c]]

\* Mutant: register overwrites a rule that is already there instead of throwing.
RegisterOnOverwrite(rs, cats, rule) ==
    [rules |-> IF Has(rs, rule.id)
               THEN [i \in 1..Len(rs) |-> IF rs[i].id = rule.id THEN rule ELSE rs[i]]
               ELSE RulesSet(rs, rule),
     ruleCategories |-> Track(cats, rule), threw |-> FALSE]

\* register(rule) on the maps <<rs, cats>>: the maps afterwards and whether it threw.
RegisterOn(rs, cats, rule) ==
    IF Has(rs, rule.id)
    THEN [rules |-> rs, ruleCategories |-> cats, threw |-> TRUE]
    ELSE [rules |-> RulesSet(rs, rule), ruleCategories |-> Track(cats, rule), threw |-> FALSE]

\* Mutant: registerBatch goes on with the rest of the list after a throw.
RECURSIVE RegisterBatchOnSkipping(_, _, _)
RegisterBatchOnSkipping(rs, cats, batch) ==
    IF batch = <<>> THEN [rules |-> rs, ruleCategories |-> cats, threw |-> FALSE]
    ELSE LET one == RegisterOn(rs, cats, Head(batch))
         IN  IF one.threw
             THEN Put(Put(RegisterBatchOnSkipping(rs, cats, Tail(batch)), "threw", TRUE),
                      "at", Head(batch).id)
             ELSE RegisterBatchOnSkipping(one.rules, one.ruleCategories, Tail(batch))

\* registerBatch: register one by one; the first throw ends the loop.
RECURSIVE RegisterBatchOn(_, _, _)
RegisterBatchOn(rs, cats, batch) ==
    IF batch = <<>> THEN [rules |-> rs, ruleCategories |-> cats, threw |-> FALSE]
    ELSE LET one == RegisterOn(rs, cats, Head(batch))
         IN  IF one.threw THEN Put(one, "at", Head(batch).id)
             ELSE RegisterBatchOn(one.rules, one.ruleCategories, Tail(batch))

\* The override stored for one entry of applyOverrides.
StoredOverride(config) ==
    IF "bool" \in DOMAIN config THEN [enabled |-> config.bool] ELSE config

\* Mutant: an entry is merged onto the override already stored for its id.
ApplyOverridesOnMerge(ovs, ruleConfigs) ==
    [id \in DOMAIN ovs \cup DOMAIN ruleConfigs |->
        IF id \in DOMAIN ruleConfigs
        THEN IF id \in DOMAIN ovs
             THEN Spread(ovs[id], StoredOverride(ruleConfigs[id]))
             ELSE StoredOverride(ruleConfigs[id])
        ELSE ovs[id]]

\* Mutant: the call replaces the whole overrides map by its argument.
ApplyOverridesOnReset(ovs, ruleConfigs) ==
    [id \in DOMAIN ruleConfigs |-> StoredOverride(ruleConfigs[id])]

\* this.overrides.set(ruleId, ...) for every entry of ruleConfigs.
ApplyOverridesOn(ovs, ruleConfigs) ==
    [id \in DOMAIN ovs \cup DOMAIN ruleConfigs |->
        IF id \in DOMAIN ruleConfigs THEN StoredOverride(ruleConfigs[id]) ELSE ovs[id]]

Void == [void |-> TRUE]
Threw(msg) == [threw |-> msg]
Value(v) == [value |-> v]

\* Mutant: registering a rule drops an override stored for its id earlier.
RegisterDroppingOverride(rule) ==
    LET r == RegisterOn(rules, ruleCategories, rule)
    IN  /\ rules' = r.rules
        /\ ruleCategories' = r.ruleCategories
        /\ overrides' = IF r.threw THEN overrides ELSE Drop(overrides, rule.id)
        /\ UNCHANGED cfgVars
        /\ call' = [op |-> "register", rule |-> rule]
        /\ ret' = IF r.threw THEN Threw(AlreadyRegistered(rule.id)) ELSE Void

Register(rule) ==
    LET r == RegisterOn(rules, ruleCategories, rule)
    IN  /\ rules' = r.rules
        /\ ruleCategories' = r.ruleCategories
        /\ UNCHANGED <<overrides, cfgVars>>
        /\ call' = [op |-> "register", rule |-> rule]
        /\ ret' = IF r.threw THEN Threw(AlreadyRegistered(rule.id)) ELSE Void

RegisterBatch(batch) ==
    LET r == RegisterBatchOn(rules, ruleCategories, batch)
    IN  /\ rules' = r.rules
        /\ ruleCategories' = r.ruleCategories
        /\ UNCHANGED <<overrides, cfgVars>>
        /\ call' = [op |-> "registerBatch", rules |-> batch]
        /\ ret' = IF r.threw THEN Threw(AlreadyRegistered(r.at)) ELSE Void

ApplyOverrides(ruleConfigs) ==
    /\ overrides' = ApplyOverridesOn(overrides, ruleConfigs)
    /\ UNCHANGED <<rules, ruleCategories, cfgVars>>
    /\ call' = [op |-> "applyOverrides", ruleConfigs |-> ruleConfigs, before |-> overrides]
    /\ ret' = Void

\* Mutant: clearOverrides writes each override's severity into the stored rule.
ClearOverridesBaking ==
    /\ rules' = [i \in 1..Len(rules) |->
                    IF rules[i].id \in DOMAIN overrides
                       /\ "severity" \in DOMAIN overrides[rules[i].id]
                    THEN [rules[i] EXCEPT !.severity = overrides[rules[i].id].severity]
                    ELSE rules[i]]
    /\ overrides' = << >>
    /\ UNCHANGED <<ruleCategories, cfgVars>>
    /\ call' = [op |-> "clearOverrides", before |-> overrides]
    /\ ret' = Void

ClearOverrides ==
    /\ overrides' = << >>
    /\ UNCHANGED <<rules, ruleCategories, cfgVars>>
    /\ call' = [op |-> "clearOverrides", before |-> overrides]
    /\ ret' = Void

Clear ==
    /\ rules' = <<>>
    /\ ruleCategories' = << >>
    /\ overrides' = << >>
    /\ UNCHANGED cfgVars
    /\ call' = [op |-> "clear"]
    /\ ret' = Void

GetEffectiveRuleCall(ruleId, defaultSeverity) ==
    /\ UNCHANGED <<rules, ruleCategories, overrides, cfgVars>>
    /\ call' = [op |-> "getEffectiveRule", ruleId |-> ruleId,
                defaultSeverity |-> defaultSeverity]
    /\ ret' = Value(GetEffectiveRule(rules, overrides, ruleId, defaultSeverity))

IsEnabledCall(ruleId) ==
    /\ UNCHANGED <<rules, ruleCategories, overrides, cfgVars>>
    /\ call' = [op |-> "isEnabled", ruleId |-> ruleId]
    /\ ret' = Value(IsEnabled(rules, overrides, ruleId))

-----------------------------------------------------------------------------
(* RuleEngine *)

NotFound(ruleId) == <<"Rule", ruleId, "not found">>

IsObject(result) == "primitive" \notin DOMAIN result

\* Mutant: a supplied value is used even when it is falsy (?? instead of ||).
FieldOrNullish(obj, key, dflt) ==
    IF key \in DOMAIN obj THEN obj[key] ELSE dflt

\* (obj.key as T) || dflt
FieldOr(obj, key, dflt) ==
    IF key \in DOMAIN obj /\ Truthy(obj[key]) THEN obj[key] ELSE dflt

\* The optional issue fields the raw element supplies with a truthy value.
Optional(obj) ==
    [k \in {x \in {"line", "column", "suggestion", "category"} :
                x \in DOMAIN obj /\ Truthy(obj[x])} |-> obj[k]]

\* One surviving raw element projected onto a ValidationIssue.
ToIssue(obj, ruleId, ruleName, severity) ==
    Spread([ruleId          |-> FieldOr(obj, "ruleId", ruleId),
            ruleDescription |-> FieldOr(obj, "ruleDescription", ruleName),
            severity        |-> FieldOr(obj, "severity", severity),
            path            |-> FieldOr(obj, "path", "root"),
            message         |-> FieldOr(obj, "message", "")],
           Optional(obj))

\* Mutant: every object survives, with or without a message.
SurvivesAnyObject(result) == IsObject(result)

\* Whether a raw array element survives normalization.
Survives(result) == IsObject(result) /\ "message" \in DOMAIN result

RECURSIVE MapFilter(_, _, _, _)
MapFilter(elems, ruleId, ruleName, severity) ==
    IF elems = <<>> THEN <<>>
    ELSE LET rest == MapFilter(Tail(elems), ruleId, ruleName, severity)
         IN  IF Survives(Head(elems))
             THEN <<ToIssue(Head(elems), ruleId, ruleName, severity)>> \o rest
             ELSE rest

NormalizeResults(results, ruleId, ruleName, severity) ==
    IF "array" \notin DOMAIN results THEN <<>>
    ELSE MapFilter(results.array, ruleId, ruleName, severity)

\* Mutant: the isEnabled test is skipped, a disabled rule runs.
ExecuteRuleRunsDisabled(rs, ovs, ruleId, spec, defaultSeverity) ==
    LET stats == [ruleId |-> ruleId, executed |-> FALSE, issuesFound |-> 0]
    IN  IF ~Has(rs, ruleId)
        THEN [issues |-> <<>>, stats |-> Put(stats, "error", NotFound(ruleId))]
        ELSE LET rule == Get(rs, ruleId)
                 effectiveRule == GetEffectiveRule(rs, ovs, ruleId, defaultSeverity)
                 rawResults == FnApply(effectiveRule.fn, spec, OptionsOf(effectiveRule))
             IN  IF "threw" \in DOMAIN rawResults
                 THEN [issues |-> <<>>, stats |-> Put(stats, "error", rawResults.threw)]
                 ELSE LET issues == NormalizeResults(rawResults.returned, ruleId,
                                                     rule.name, effectiveRule.severity)
                      IN  [issues |-> issues,
                           stats |-> [stats EXCEPT !.executed = TRUE,
                                                   !.issuesFound = Len(issues)]]

\* executeRule: {issues, stats}.
ExecuteRule(rs, ovs, ruleId, spec, defaultSeverity) ==
    LET stats == [ruleId |-> ruleId, executed |-> FALSE, issuesFound |-> 0]
    IN  IF ~Has(rs, ruleId)
        THEN [issues |-> <<>>, stats |-> Put(stats, "error", NotFound(ruleId))]
        ELSE IF ~IsEnabled(rs, ovs, ruleId)
        THEN [issues |-> <<>>, stats |-> stats]
        ELSE LET rule == Get(rs, ruleId)
                 effectiveRule == GetEffectiveRule(rs, ovs, ruleId, defaultSeverity)
                 rawResults == FnApply(effectiveRule.fn, spec, OptionsOf(effectiveRule))
             IN  IF "threw" \in DOMAIN rawResults
                 THEN [issues |-> <<>>, stats |-> Put(stats, "error", rawResults.threw)]
                 ELSE LET issues == NormalizeResults(rawResults.returned, ruleId,
                                                     rule.name, effectiveRule.severity)
                      IN  [issues |-> issues,
                           stats |-> [stats EXCEPT !.executed = TRUE,
                                                   !.issuesFound = Len(issues)]]

\* Mutant: the loop stops at the first rule whose stats carry an error.
RECURSIVE ExecuteEachAbort(_, _, _, _, _)
ExecuteEachAbort(rs, ovs, toExecute, spec, defaultSeverity) ==
    IF toExecute = <<>> THEN [issues |-> <<>>, stats |-> <<>>]
    ELSE LET one == ExecuteRule(rs, ovs, Head(toExecute), spec, defaultSeverity)
             rest == IF "error" \in DOMAIN one.stats
                     THEN [issues |-> <<>>, stats |-> <<>>]
                     ELSE ExecuteEachAbort(rs, ovs, Tail(toExecute), spec, defaultSeverity)
         IN  [issues |-> one.issues \o rest.issues, stats |-> <<one.stats>> \o rest.stats]

\* executeAll's loop over toExecute: {issues, stats}.
RECURSIVE ExecuteEach(_, _, _, _, _)
ExecuteEach(rs, ovs, toExecute, spec, defaultSeverity) ==
    IF toExecute = <<>> THEN [issues |-> <<>>, stats |-> <<>>]
    ELSE LET one == ExecuteRule(rs, ovs, Head(toExecute), spec, defaultSeverity)
             rest == ExecuteEach(rs, ovs, Tail(toExecute), spec, defaultSeverity)
         IN  [issues |-> one.issues \o rest.issues, stats |-> <<one.stats>> \o rest.stats]

\* ruleIds is [list |-> an id list], or Undefined when the argument is not given.
\* ruleIds || getAllIds(): an array, empty or not, is truthy.
ExecuteAll(rs, ovs, spec, ruleIds, defaultSeverity) ==
    LET toExecute == IF "list" \in DOMAIN ruleIds THEN ruleIds.list ELSE GetAllIds(rs)
    IN  ExecuteEach(rs, ovs, toExecute, spec, defaultSeverity)

ExecuteRuleCall(ruleId, spec, defaultSeverity) ==
    /\ UNCHANGED <<rules, ruleCategories, overrides, cfgVars>>
    /\ call' = [op |-> "executeRule", ruleId |-> ruleId, spec |-> spec,
                defaultSeverity |-> defaultSeverity]
    /\ ret' = Value(ExecuteRule(rules, overrides, ruleId, spec, defaultSeverity))

\* Mutant: executeAll switches off every rule whose stats carry an error.
ExecuteAllCallDisablingFailed(spec, ruleIds, defaultSeverity) ==
    LET out == ExecuteAll(rules, overrides, spec, ruleIds, defaultSeverity)
        failed == {out.stats[i].ruleId : i \in {j \in 1..Len(out.stats) :
                                                   "error" \in DOMAIN out.stats[j]}}
    IN  /\ overrides' = [id \in DOMAIN overrides \cup failed |->
                            IF id \in failed THEN [enabled |-> FALSE] ELSE overrides[id]]
        /\ UNCHANGED <<rules, ruleCategories, cfgVars>>
        /\ call' = [op |-> "executeAll", spec |-> spec, ruleIds |-> ruleIds,
                    defaultSeverity |-> defaultSeverity]
        /\ ret' = Value(out)

ExecuteAllCall(spec, ruleIds, defaultSeverity) ==
    /\ UNCHANGED <<rules, ruleCategories, overrides, cfgVars>>
    /\ call' = [op |-> "executeAll", spec |-> spec, ruleIds |-> ruleIds,
                defaultSeverity |-> defaultSeverity]
    /\ ret' = Value(ExecuteAll(rules, overrides, spec, ruleIds, defaultSeverity))

-----------------------------------------------------------------------------
(* The registry and engine as one state machine *)

\* A new RuleRegistry: three empty maps.
RegistryInit ==
    /\ rules = <<>>
    /\ ruleCategories = << >>
    /\ overrides = << >>

\* A new ConfigParser with nothing loaded, and no configuration file on disk.
ParserInit ==
    /\ loadedConfigs = << >>
    /\ stack = <<>>

Init ==
    /\ RegistryInit
    /\ ParserInit
    /\ files = << >>
    /\ call = [op |-> "new"]
    /\ ret = Void

Next ==
    \/ \E rule \in Rules : Register(rule)
    \/ \E batch \in SeqsUpTo(BatchRules, MaxBatch) : RegisterBatch(batch)
    \/ \E ruleConfigs \in ConfigMaps : ApplyOverrides(ruleConfigs)
    \/ ClearOverrides
    \/ Clear
    \/ \E ruleId \in AllIds, d \in DefaultSeverities : GetEffectiveRuleCall(ruleId, d)
    \/ \E ruleId \in AllIds : IsEnabledCall(ruleId)
    \/ \E ruleId \in AllIds, spec \in Specs, d \in DefaultSeverities :
            ExecuteRuleCall(ruleId, spec, d)
    \/ \E spec \in Specs, d \in DefaultSeverities,
          ruleIds \in {[list |-> l] : l \in SeqsUpTo(AllIds, MaxList)} \cup {Undefined} :
            ExecuteAllCall(spec, ruleIds, d)

Spec == Init /\ [][Next]_vars

-----------------------------------------------------------------------------
(* Properties of the registry and the engine, checked under Spec *)

Registered(ruleId) == Has(rules, ruleId)
Op(name) == call.op = name
Returned == "value" \in DOMAIN ret

RECURSIVE Flatten(_)
Flatten(seqs) == IF seqs = <<>> THEN <<>> ELSE Head(seqs) \o Flatten(Tail(seqs))

\* What the function of a registered, enabled rule does on spec.
Outcome(ruleId, spec, d) ==
    LET eff == GetEffectiveRule(rules, overrides, ruleId, d)
    IN  FnApply(eff.fn, spec, OptionsOf(eff))

CanRun(ruleId) == Registered(ruleId) /\ IsEnabled(rules, overrides, ruleId)

\* The raw elements of a returned value that are objects with a message.
Survivors(raw) == IF "array" \in DOMAIN raw THEN SelectSeq(raw.array, Survives) ELSE <<>>

\* The issues a rule owes to a batch: those of its normal return, if it can run.
Owed(ruleId, spec, d) ==
    IF CanRun(ruleId) /\ "returned" \in DOMAIN Outcome(ruleId, spec, d)
    THEN LET eff == GetEffectiveRule(rules, overrides, ruleId, d)
             kept == Survivors(Outcome(ruleId, spec, d).returned)
         IN  [k \in 1..Len(kept) |->
                 ToIssue(kept[k], ruleId, Get(rules, ruleId).name, eff.severity)]
    ELSE <<>>

\* C1: executeAll over an id list L returns one stats record per element of
\* L, in L's order, and exactly the issues of every enabled rule of L whose
\* function returns normally, whichever other rules of L throw, are
\* unregistered or disabled; a rule whose function throws contributes no issue
\* and a stats record with executed = false and the thrown message as error.
C1_FailureIsolation ==
    Op("executeAll") /\ "list" \in DOMAIN call.ruleIds =>
        LET L == call.ruleIds.list
            out == ret.value
        IN  /\ Len(out.stats) = Len(L)
            /\ \A i \in 1..Len(L) :
                 LET st == out.stats[i]
                 IN  /\ st.ruleId = L[i]
                     /\ CanRun(L[i]) =>
                          LET o == Outcome(L[i], call.spec, call.defaultSeverity)
                          IN  IF "threw" \in DOMAIN o
                              THEN /\ st.executed = FALSE
                                   /\ st.issuesFound = 0
                                   /\ "error" \in DOMAIN st /\ st.error = o.threw
                              ELSE /\ st.executed = TRUE
                                   /\ "error" \notin DOMAIN st
                                   /\ st.issuesFound =
                                        Len(Owed(L[i], call.spec, call.defaultSeverity))
            /\ out.issues =
                 Flatten([i \in 1..Len(L) |-> Owed(L[i], call.spec, call.defaultSeverity)])

\* A batch in which a rule threw and a later rule still ran and found issues.
C1_Witness ==
    /\ Op("executeAll") /\ "list" \in DOMAIN call.ruleIds
    /\ \E i, j \in 1..Len(ret.value.stats) :
         /\ i < j
         /\ "error" \in DOMAIN ret.value.stats[i]
         /\ ret.value.stats[i].error = <<"Test error">>
         /\ ret.value.stats[j].executed
         /\ ret.value.stats[j].issuesFound > 0
         /\ Len(ret.value.issues) = ret.value.stats[j].issuesFound

\* C2: register(rule) throws whenever a rule with rule.id is already
\* registered, whatever the new rule's body, and the failed call leaves the
\* rule map, the category index and the overrides as they were.
C2_DuplicateRegisterFails ==
    [][ (call'.op = "register" /\ Has(rules, call'.rule.id)) =>
            /\ "threw" \in DOMAIN ret'
            /\ rules' = rules
            /\ Get(rules', call'.rule.id) = Get(rules, call'.rule.id)
            /\ GetCount(rules') = GetCount(rules)
            /\ ruleCategories' = ruleCategories
            /\ overrides' = overrides ]_vars

\* A failed registration of a different body under an id that has an override.
C2_Witness ==
    /\ Op("register") /\ "threw" \in DOMAIN ret
    /\ Registered(call.rule.id)
    /\ Get(rules, call.rule.id) # call.rule
    /\ Get(rules, call.rule.id).category # call.rule.category
    /\ call.rule.id \in DOMAIN overrides

HasOverride(ruleId) == ruleId \in DOMAIN overrides
OverrideSets(ruleId, field) == HasOverride(ruleId) /\ field \in DOMAIN overrides[ruleId]

\* C5, as stated: for a registered rule and a supplied defaultSeverity d the
\* effective severity is the override's when it specifies one and d
\* otherwise, also when no override is stored at all.
C5_AsStated ==
    (Op("getEffectiveRule") /\ Registered(call.ruleId) /\ call.defaultSeverity # Undef) =>
        ret.value.severity =
            IF OverrideSets(call.ruleId, "severity")
            THEN overrides[call.ruleId].severity
            ELSE call.defaultSeverity

\* C5, amended: the effective severity is the override's when it specifies
\* one; otherwise it is d when d is supplied and an override is stored for
\* the id; with no override stored it is the rule's own severity, whatever d.
C5_DefaultNeedsOverride ==
    (Op("getEffectiveRule") /\ Registered(call.ruleId)) =>
        ret.value.severity =
            IF OverrideSets(call.ruleId, "severity") THEN overrides[call.ruleId].severity
            ELSE IF HasOverride(call.ruleId) /\ call.defaultSeverity # Undef
                 THEN call.defaultSeverity
            ELSE Get(rules, call.ruleId).severity

\* A supplied default that outranks the rule's severity under an override
\* that sets none.
C5_Witness ==
    /\ Op("getEffectiveRule") /\ Registered(call.ruleId)
    /\ HasOverride(call.ruleId) /\ ~OverrideSets(call.ruleId, "severity")
    /\ call.defaultSeverity = "info"
    /\ Get(rules, call.ruleId).severity = "error"
    /\ ret.value.severity = "info"

\* The registered severity governs getEffectiveRule without an override, and
\* an override's severity governs it for every d.
EffectiveSeverityRule ==
    (Op("getEffectiveRule") /\ Registered(call.ruleId)) =>
        /\ ~HasOverride(call.ruleId) =>
              ret.value.severity = Get(rules, call.ruleId).severity
        /\ OverrideSets(call.ruleId, "severity") =>
              ret.value.severity = overrides[call.ruleId].severity

\* C6, as stated: with no override stored the effective severity is the
\* registered one for every d, every issue of executeRule carries it, and an
\* override's severity is the effective one for every d.
C6_AsStated ==
    /\ EffectiveSeverityRule
    /\ (Op("executeRule") /\ Registered(call.ruleId) /\ ~HasOverride(call.ruleId)) =>
          \A k \in 1..Len(ret.value.issues) :
              ret.value.issues[k].severity = Get(rules, call.ruleId).severity

\* C6, amended: as stated, except that an issue whose raw element supplies a
\* severity of its own carries that severity.
C6_RegisteredSeverityWithoutOverride ==
    /\ EffectiveSeverityRule
    /\ (Op("executeRule") /\ CanRun(call.ruleId) /\ ~HasOverride(call.ruleId)) =>
          LET o == Outcome(call.ruleId, call.spec, call.defaultSeverity)
              kept == IF "returned" \in DOMAIN o THEN Survivors(o.returned) ELSE <<>>
          IN  /\ Len(ret.value.issues) = Len(kept)
              /\ \A k \in 1..Len(kept) :
                    ret.value.issues[k].severity =
                        IF "severity" \in DOMAIN kept[k] /\ Truthy(kept[k].severity)
                        THEN kept[k].severity
                        ELSE Get(rules, call.ruleId).severity

\* An issue reported at the registered severity although a default was given.
C6_Witness ==
    /\ Op("executeRule") /\ Registered(call.ruleId) /\ ~HasOverride(call.ruleId)
    /\ call.defaultSeverity = "info"
    /\ Len(ret.value.issues) > 0
    /\ ret.value.issues[1].severity = "error"
    /\ Get(rules, call.ruleId).severity = "error"

\* The fields an applyOverrides entry sets.
FieldsOf(config) == IF "bool" \in DOMAIN config THEN {"enabled"} ELSE DOMAIN config
FieldOf(config, field) ==
    IF "bool" \in DOMAIN config THEN config.bool ELSE config[field]

\* C7: applyOverrides is last-write-wins per rule id with full replacement:
\* the effective rule of an id the call names is computed from the entry of
\* this call alone, so every field an earlier override set and this entry
\* omits is the base rule's again; the overrides of the ids the call does not
\* name are left as they were.
C7_LastWriteWins ==
    Op("applyOverrides") =>
        \A id \in RegIds :
            IF id \in DOMAIN call.ruleConfigs
            THEN Registered(id) =>
                   LET o2 == call.ruleConfigs[id]
                       base == Get(rules, id)
                       eff == GetEffectiveRule(rules, overrides, id, Undef)
                   IN  /\ eff.severity = IF "severity" \in FieldsOf(o2)
                                         THEN FieldOf(o2, "severity") ELSE base.severity
                       /\ IsEnabled(rules, overrides, id) =
                             IF "enabled" \in FieldsOf(o2) THEN FieldOf(o2, "enabled")
                             ELSE ~("enabled" \in DOMAIN base /\ base.enabled = FALSE)
                       /\ eff.options = IF "options" \in FieldsOf(o2)
                                        THEN Spread(OptionsOf(base), FieldOf(o2, "options"))
                                        ELSE OptionsOf(base)
            ELSE /\ id \in DOMAIN overrides <=> id \in DOMAIN call.before
                 /\ id \in DOMAIN overrides => overrides[id] = call.before[id]

\* An override that disabled the rule and set nothing else, replaced by one
\* that sets only the severity: the rule is enabled again.
C7_Witness ==
    /\ Op("applyOverrides")
    /\ \E id \in DOMAIN call.ruleConfigs \cap DOMAIN call.before :
         /\ Registered(id)
         /\ call.before[id] = [enabled |-> FALSE]
         /\ call.ruleConfigs[id] = [severity |-> "warning"]
         /\ "enabled" \in DOMAIN Get(rules, id) /\ Get(rules, id).enabled
         /\ IsEnabled(rules, overrides, id)
    /\ \E other \in DOMAIN overrides : other \notin DOMAIN call.ruleConfigs

\* C8, as stated: after o1 and then o2 are applied for the same id, the stored
\* override is o2 merged onto o1, so a field o1 set and o2 does not mention
\* still governs the effective rule.
C8_AsStated ==
    Op("applyOverrides") =>
        \A id \in DOMAIN call.ruleConfigs \cap DOMAIN call.before :
            LET o1 == call.before[id]
                o2 == call.ruleConfigs[id]
            IN  \A f \in DOMAIN o1 \ FieldsOf(o2) :
                    f \in DOMAIN overrides[id] /\ overrides[id][f] = o1[f]

\* C8, amended: reapplying an override for a rule id discards the previously
\* applied one wholesale: the stored override holds the fields of o2 and no
\* others, so a field o1 set and o2 does not mention governs nothing.
C8_ReapplyingReplaces ==
    Op("applyOverrides") =>
        \A id \in DOMAIN call.ruleConfigs :
            LET o2 == call.ruleConfigs[id]
            IN  /\ id \in DOMAIN overrides
                /\ DOMAIN overrides[id] = FieldsOf(o2)
                /\ \A f \in FieldsOf(o2) : overrides[id][f] = FieldOf(o2, f)

\* enabled = false followed by an override that only sets options.
C8_Witness ==
    /\ Op("applyOverrides")
    /\ \E id \in DOMAIN call.ruleConfigs \cap DOMAIN call.before :
         /\ "enabled" \in DOMAIN call.before[id]
         /\ call.before[id].enabled = FALSE
         /\ "bool" \notin DOMAIN call.ruleConfigs[id]
         /\ "enabled" \notin DOMAIN call.ruleConfigs[id]
         /\ "enabled" \notin DOMAIN overrides[id]

AsRegistered(ruleId) ==
    /\ GetEffectiveRule(rules, overrides, ruleId, Undef) = Get(rules, ruleId)
    /\ IsEnabled(rules, overrides, ruleId) =
          ~("enabled" \in DOMAIN Get(rules, ruleId) /\ Get(rules, ruleId).enabled = FALSE)

\* C9: no override or engine operation alters the stored rules (applyOverrides,
\* clearOverrides, getEffectiveRule, isEnabled, executeRule and executeAll leave
\* every get(id) as it was), and after clearOverrides() the effective rule and
\* isEnabled of every registered id are those of the registered rule.
C9_OverridesLeaveRulesAlone ==
    [][ /\ call'.op \in {"applyOverrides", "clearOverrides", "getEffectiveRule",
                         "isEnabled", "executeRule", "executeAll"} =>
              /\ rules' = rules
              /\ \A id \in AllIds : Get(rules', id) = Get(rules, id)
        /\ call'.op = "clearOverrides" =>
              \A id \in AllIds : Has(rules', id) =>
                  /\ GetEffectiveRule(rules', overrides', id, Undef) = Get(rules, id)
                  /\ IsEnabled(rules', overrides', id) =
                        ~("enabled" \in DOMAIN Get(rules, id)
                          /\ Get(rules, id).enabled = FALSE) ]_vars

\* clearOverrides after an override that changed severity and enablement.
C9_Witness ==
    /\ Op("clearOverrides")
    /\ \E id \in DOMAIN call.before :
         /\ Registered(id)
         /\ GetEffectiveRule(rules, call.before, id, Undef).severity
               # Get(rules, id).severity
         /\ AsRegistered(id)
    /\ \E id \in DOMAIN call.before :
         /\ Registered(id)
         /\ IsEnabled(rules, call.before, id) # IsEnabled(rules, overrides, id)

\* C10: in every reachable registry state, for every id that is not
\* registered, getEffectiveRule returns null and isEnabled returns false, also
\* when an override is stored for that id.
C10_UnregisteredIsNullAndDisabled ==
    /\ \A id \in AllIds : ~Registered(id) =>
          /\ \A d \in DefaultSeverities :
                GetEffectiveRule(rules, overrides, id, d) = Null
          /\ IsEnabled(rules, overrides, id) = FALSE
    /\ (Op("getEffectiveRule") /\ ~Registered(call.ruleId)) => ret.value = Null
    /\ (Op("isEnabled") /\ ~Registered(call.ruleId)) => ret.value = FALSE

\* isEnabled answered false for an unregistered id with an enabling override.
C10_Witness ==
    /\ Op("isEnabled") /\ ~Registered(call.ruleId)
    /\ OverrideSets(call.ruleId, "enabled") /\ overrides[call.ruleId].enabled
    /\ ret.value = FALSE

-----------------------------------------------------------------------------
(* Properties of executeRule and executeAll, checked under Spec *)

\* A registered rule is disabled by an override that sets enabled to false,
\* or, no override setting enabled, by its own enabled = false.
Disabled(ruleId) ==
    IF OverrideSets(ruleId, "enabled") THEN overrides[ruleId].enabled = FALSE
    ELSE "enabled" \in DOMAIN Get(rules, ruleId) /\ Get(rules, ruleId).enabled = FALSE

\* C11: executeRule returns, never throws, for a rule that cannot run: for an
\* unregistered id no issues and stats with executed = false, issuesFound = 0
\* and the not-found error; for a registered, disabled rule no issues and
\* stats with executed = false, issuesFound = 0 and no error field.  In
\* executeRule a call of the rule function is followed by executed = true or
\* by the catch block setting error, so these stats say the function did not
\* run.
C11_CannotRunIsData ==
    (Op("executeRule") /\ (~Registered(call.ruleId) \/ Disabled(call.ruleId))) =>
        /\ Returned
        /\ ret.value.issues = <<>>
        /\ ret.value.stats.ruleId = call.ruleId
        /\ ret.value.stats.executed = FALSE
        /\ ret.value.stats.issuesFound = 0
        /\ IF Registered(call.ruleId)
           THEN "error" \notin DOMAIN ret.value.stats
           ELSE /\ "error" \in DOMAIN ret.value.stats
                /\ ret.value.stats.error = <<"Rule", call.ruleId, "not found">>

\* A rule whose function would throw, switched off by an override, on a
\* document for which it would otherwise be asked.
C11_Witness ==
    /\ Op("executeRule") /\ Registered(call.ruleId)
    /\ Get(rules, call.ruleId).fn = "throws"
    /\ "enabled" \notin DOMAIN Get(rules, call.ruleId)
    /\ OverrideSets(call.ruleId, "enabled") /\ Disabled(call.ruleId)
    /\ ret.value.stats.executed = FALSE
    /\ "error" \notin DOMAIN ret.value.stats

\* The ids executeAll was asked for: the list given, else the registered ids
\* in registration order.
Requested ==
    IF "list" \in DOMAIN call.ruleIds THEN call.ruleIds.list
    ELSE [i \in 1..Len(rules) |-> rules[i].id]

\* C12: executeAll answers in request order: stats[i].ruleId is the i-th
\* requested id (the i-th registered id when no list is given), and the
\* issues are the concatenation, in that order, of each rule's normalized
\* issues, those of one rule in the order its function returned them.
C12_RequestOrder ==
    Op("executeAll") =>
        /\ Len(ret.value.stats) = Len(Requested)
        /\ \A i \in 1..Len(Requested) : ret.value.stats[i].ruleId = Requested[i]
        /\ ret.value.issues =
             Flatten([i \in 1..Len(Requested) |->
                         Owed(Requested[i], call.spec, call.defaultSeverity)])

\* No list given, r2 registered before r1, both find issues, r2 two of them.
C12_Witness ==
    /\ Op("executeAll") /\ "list" \notin DOMAIN call.ruleIds
    /\ Len(rules) = 2 /\ rules[1].id = "r2" /\ rules[2].id = "r1"
    /\ Len(ret.value.issues) = 3
    /\ ret.value.issues[1].message = "Issue 1"
    /\ ret.value.issues[2].message = "Issue 2"
    /\ ret.value.issues[3].ruleId = "r1"
    /\ ret.value.stats[1].ruleId = "r2" /\ ret.value.stats[2].ruleId = "r1"

\* A raw element that is an object carrying a message field.
CarriesMessage(e) == "primitive" \notin DOMAIN e /\ "message" \in DOMAIN e

\* The positions of raw, an array, whose elements carry a message, in order.
KeptPositions(raw) ==
    LET idx == {i \in 1..Len(raw.array) : CarriesMessage(raw.array[i])}
    IN  [k \in 1..Cardinality(idx) |->
            CHOOSE i \in idx : Cardinality({j \in idx : j < i}) = k - 1]

\* executeRule ran the function of call.ruleId and it returned.
RanAndReturned ==
    /\ Op("executeRule") /\ Registered(call.ruleId) /\ ~Disabled(call.ruleId)
    /\ "returned" \in DOMAIN Outcome(call.ruleId, call.spec, call.defaultSeverity)

RawOfCall == Outcome(call.ruleId, call.spec, call.defaultSeverity).returned

\* C13: a rule function returning a non-array yields zero issues with
\* executed = true and no error; of an array exactly the elements that are
\* objects with a message field survive, one issue each and in order, and
\* stats.issuesFound is the number of survivors.
C13_KeepsMessageObjects ==
    RanAndReturned =>
        /\ ret.value.stats.executed = TRUE
        /\ "error" \notin DOMAIN ret.value.stats
        /\ ret.value.stats.issuesFound = Len(ret.value.issues)
        /\ IF "array" \notin DOMAIN RawOfCall THEN ret.value.issues = <<>>
           ELSE LET kept == KeptPositions(RawOfCall)
                IN  /\ Len(ret.value.issues) = Len(kept)
                    /\ \A k \in 1..Len(kept) :
                          ret.value.issues[k].message = RawOfCall.array[kept[k]].message

\* Four raw elements, of which a primitive and an object without a message
\* are dropped.
C13_Witness ==
    /\ RanAndReturned /\ "array" \in DOMAIN RawOfCall
    /\ Len(RawOfCall.array) = 4
    /\ \E i, j \in 1..4 : /\ "primitive" \in DOMAIN RawOfCall.array[i]
                          /\ "primitive" \notin DOMAIN RawOfCall.array[j]
                          /\ "message" \notin DOMAIN RawOfCall.array[j]
    /\ ret.value.stats.issuesFound = 2
    /\ ret.value.stats.executed

\* What the engine fills in for a field the raw element leaves out.
EngineDefault(field) ==
    CASE field = "ruleId" -> call.ruleId
      [] field = "ruleDescription" -> Get(rules, call.ruleId).name
      [] field = "severity" ->
            GetEffectiveRule(rules, overrides, call.ruleId, call.defaultSeverity).severity
      [] field = "path" -> "root"

DefaultedFields == {"ruleId", "ruleDescription", "severity", "path"}
OptionalFields == {"line", "column", "suggestion", "category"}

\* C14, as stated: every issue has the engine's value in each of ruleId,
\* ruleDescription, severity and path, except that a field the raw element
\* supplies has the raw element's value; line, column, suggestion and
\* category are absent unless the raw element supplies them.
C14_AsStated ==
    (RanAndReturned /\ "array" \in DOMAIN RawOfCall) =>
        LET kept == KeptPositions(RawOfCall)
        IN  \A k \in 1..Len(kept) :
              LET e == RawOfCall.array[kept[k]]
                  issue == ret.value.issues[k]
              IN  /\ \A f \in DefaultedFields :
                        issue[f] = IF f \in DOMAIN e THEN e[f] ELSE EngineDefault(f)
                  /\ \A f \in OptionalFields : f \in DOMAIN issue => f \in DOMAIN e

\* C14, amended: as stated, except that only a field the raw element supplies
\* with a truthy value takes the raw element's value; a field supplied as an
\* empty string has the engine's value, and an optional field is present
\* exactly when it is supplied truthy.
C14_TruthyRawFieldsWin ==
    (RanAndReturned /\ "array" \in DOMAIN RawOfCall) =>
        LET kept == KeptPositions(RawOfCall)
        IN  /\ Len(ret.value.issues) = Len(kept)
            /\ \A k \in 1..Len(kept) :
                 LET e == RawOfCall.array[kept[k]]
                     issue == ret.value.issues[k]
                 IN  /\ \A f \in DefaultedFields :
                           issue[f] = IF f \in DOMAIN e /\ e[f] # "" THEN e[f]
                                      ELSE EngineDefault(f)
                     /\ \A f \in OptionalFields :
                           IF f \in DOMAIN e /\ e[f] # ""
                           THEN f \in DOMAIN issue /\ issue[f] = e[f]
                           ELSE f \notin DOMAIN issue

\* Under a severity override: one issue keeps its raw ruleId and severity and
\* takes the rule's name, the next takes the override's severity and has path
\* "root" although its raw element supplied an empty path.
C14_Witness ==
    /\ RanAndReturned /\ "array" \in DOMAIN RawOfCall
    /\ OverrideSets(call.ruleId, "severity")
    /\ overrides[call.ruleId].severity # Get(rules, call.ruleId).severity
    /\ Len(ret.value.issues) = 2
    /\ ret.value.issues[1].ruleId = "custom" /\ ret.value.issues[1].severity = "hint"
    /\ ret.value.issues[1].ruleDescription = Get(rules, call.ruleId).name
    /\ "suggestion" \in DOMAIN ret.value.issues[1]
    /\ ret.value.issues[2].ruleId = call.ruleId
    /\ ret.value.issues[2].severity = overrides[call.ruleId].severity
    /\ ret.value.issues[2].path = "root"
    /\ \E i \in 1..Len(RawOfCall.array) :
          "path" \in DOMAIN RawOfCall.array[i] /\ RawOfCall.array[i].path = ""

-----------------------------------------------------------------------------
(* SpecLoader and Validator *)

(* The documents on disk are fixed: a path holds a document, a text that    *)
(* does not parse, or a parsed value lacking a required field; any other   *)
(* path names no file.  Clock readings (executionTime, totalTime,          *)
(* validatedAt, loadedAt) are left out of every result.                    *)

ValidSpecPath == <<"specs", "valid.json">>
InvalidSpecPath == <<"specs", "invalid.json">>
BrokenSpecPath == <<"specs", "broken.json">>
NoInfoSpecPath == <<"specs", "noinfo.json">>
MissingSpecPath == <<"nonexistent", "spec.json">>

SpecDisk ==
    (ValidSpecPath :> [title |-> TRUE, paths |-> 1]) @@
    (InvalidSpecPath :> [title |-> FALSE, paths |-> 3]) @@
    (BrokenSpecPath :> [unparsable |-> TRUE]) @@
    (NoInfoSpecPath :> [lacks |-> "info"])

SpecPaths == {ValidSpecPath, InvalidSpecPath, BrokenSpecPath, NoInfoSpecPath, MissingSpecPath}

\* SpecLoader.loadSpec(filePath): the document, or the SpecLoadError thrown.
LoadSpec(filePath) ==
    IF filePath \notin DOMAIN SpecDisk THEN Throws(<<"Spec file not found", filePath>>)
    ELSE LET content == SpecDisk[filePath]
         IN  IF "unparsable" \in DOMAIN content THEN Throws(<<"Failed to parse JSON">>)
             ELSE IF "lacks" \in DOMAIN content
             THEN Throws(<<"Invalid OpenAPI spec: missing required field", content.lacks>>)
             ELSE Returns(content)

\* The methods class SpecLoader defines.
SpecLoaderMethods == {"loadSpec", "loadSpecs"}

\* this.specLoader[method](specPath) as validate calls it: a property the
\* class does not define is undefined, and calling it throws a TypeError.
SpecLoaderCall(method, specPath) ==
    IF method \notin SpecLoaderMethods
    THEN Throws(<<"this.specLoader", method, "is not a function">>)
    ELSE LoadSpec(specPath)

\* The result validate returns when nothing was validated.
NothingValidated(rs, details) ==
    [spec |-> Null, valid |-> FALSE, issues |-> <<>>,
     stats |-> [rulesExecuted |-> 0, issuesFound |-> 0],
     metadata |-> Spread([ruleCount |-> GetCount(rs)], details)]

\* .filter((id) => this.registry.isEnabled(id))
RECURSIVE FilterEnabled(_, _, _)
FilterEnabled(rs, ovs, ids) ==
    IF ids = <<>> THEN <<>>
    ELSE (IF IsEnabled(rs, ovs, Head(ids)) THEN <<Head(ids)>> ELSE <<>>)
         \o FilterEnabled(rs, ovs, Tail(ids))

\* Mutant: validate has no try/catch, the error of the load call escapes.
ValidateOnUncaught(rs, ovs, specPath, defaultSeverity) ==
    LET called == SpecLoaderCall("load", specPath)
    IN  IF "threw" \in DOMAIN called THEN Threw(called.threw)
        ELSE Value(NothingValidated(rs, << >>))

\* validate(specPath, defaultSeverity) of a Validator constructed without a
\* configuration (this.config undefined, so metadata.configPath is absent).
ValidateOn(rs, ovs, specPath, defaultSeverity) ==
    LET called == SpecLoaderCall("load", specPath)
    IN  IF "threw" \in DOMAIN called
        THEN Value(NothingValidated(rs, [error |-> called.threw]))
        ELSE LET loadResult == called.returned
             IN  IF ~loadResult.success
                 THEN Value(NothingValidated(rs,
                         [k \in DOMAIN loadResult \cap {"warnings", "error"} |-> loadResult[k]]))
                 ELSE LET spec == loadResult.spec
                          enabledRuleIds == FilterEnabled(rs, ovs, GetAllIds(rs))
                          out == ExecuteAll(rs, ovs, spec, [list |-> enabledRuleIds],
                                            IF defaultSeverity = Undef THEN "warning"
                                            ELSE defaultSeverity)
                          errorCount == Cardinality({k \in 1..Len(out.issues) :
                                                        out.issues[k].severity = "error"})
                      IN  Value([spec |-> spec,
                                 valid |-> errorCount = 0,
                                 issues |-> out.issues,
                                 stats |-> [rulesExecuted |->
                                               Cardinality({i \in 1..Len(out.stats) :
                                                               out.stats[i].executed}),
                                            issuesFound |-> Len(out.issues)],
                                 metadata |->
                                    Spread([ruleCount |-> GetCount(rs)],
                                           [k \in DOMAIN loadResult \cap {"warnings"} |->
                                               loadResult[k]])])

Validate(specPath, defaultSeverity) ==
    /\ UNCHANGED <<rules, ruleCategories, overrides, cfgVars>>
    /\ call' = [op |-> "validate", specPath |-> specPath,
                defaultSeverity |-> defaultSeverity]
    /\ ret' = ValidateOn(rules, overrides, specPath, defaultSeverity)

\* Validator.registerRule, registerRules and applyRuleOverrides hand their
\* argument to the registry; getEngine().executeAll is the engine's.
ValidatorNext ==
    \/ \E rule \in Rules : Register(rule)
    \/ \E batch \in SeqsUpTo(BatchRules, MaxBatch) : RegisterBatch(batch)
    \/ \E ruleConfigs \in ConfigMaps : ApplyOverrides(ruleConfigs)
    \/ \E specPath \in SpecPaths, d \in DefaultSeverities : Validate(specPath, d)
    \/ \E spec \in Specs, d \in DefaultSeverities : ExecuteAllCall(spec, Undefined, d)

\* new Validator({useBuiltInRules: false}): an empty registry.
SpecValidator == Init /\ [][ValidatorNext]_vars

-----------------------------------------------------------------------------
(* Properties of the Validator, checked under SpecValidator *)

\* The loader delivers the file at specPath / fails on it.
Delivers(specPath) == "returned" \in DOMAIN LoadSpec(specPath)

EnabledIds ==
    LET idx == {i \in 1..Len(rules) : CanRun(rules[i].id)}
    IN  [k \in 1..Cardinality(idx) |->
            rules[CHOOSE i \in idx : Cardinality({j \in idx : j < i}) = k - 1].id]

\* C16: for a document the loader delivers, validate returns that document,
\* runs exactly the enabled registered rules in registration order, reports
\* valid = true exactly when no returned issue has severity error, and
\* issuesFound and rulesExecuted count the issues and the rules that ran.
C16_AsStated ==
    (Op("validate") /\ Delivers(call.specPath)) =>
        LET doc == LoadSpec(call.specPath).returned
            d == IF call.defaultSeverity = Undef THEN "warning" ELSE call.defaultSeverity
            ids == EnabledIds
        IN  /\ Returned
            /\ ret.value.spec = doc
            /\ ret.value.issues = Flatten([i \in 1..Len(ids) |-> Owed(ids[i], doc, d)])
            /\ ret.value.valid =
                 (\A k \in 1..Len(ret.value.issues) : ret.value.issues[k].severity # "error")
            /\ ret.value.stats.issuesFound = Len(ret.value.issues)
            /\ ret.value.stats.rulesExecuted =
                 Cardinality({i \in 1..Len(ids) : "returned" \in DOMAIN Outcome(ids[i], doc, d)})

\* A registered rule that can run, has an override that sets no severity,
\* and finds an issue in the document.
FindsUnderBareOverride(rule, doc) ==
    /\ CanRun(rule.id)
    /\ HasOverride(rule.id)
    /\ "severity" \notin DOMAIN overrides[rule.id]
    /\ Owed(rule.id, doc, "warning") # <<>>

IdsOf(list) == {list[i].id : i \in 1..Len(list)}

\* The position of the first rule of the batch whose id is registered in rs
\* or borne by an earlier rule of the batch; 0 when there is none.
FirstDuplicate(rs, batch) ==
    LET dup == {k \in 1..Len(batch) :
                   batch[k].id \in IdsOf(rs) \cup IdsOf(SubSeq(batch, 1, k - 1))}
    IN  IF dup = {} THEN 0 ELSE CHOOSE k \in dup : \A j \in dup : k <= j

\* C21: registerBatch registers in list order and is not atomic: when a rule
\* of the batch bears an id registered before the call or by an earlier rule
\* of the batch, the call throws at the first such rule, every rule before it
\* is registered and listed under its category, and neither that rule nor a
\* later one is registered; without such a rule the whole batch is registered.
C21_BatchStopsAtFirstDuplicate ==
    [][ call'.op = "registerBatch" =>
          LET batch == call'.rules
              k == FirstDuplicate(rules, batch)
              done == IF k = 0 THEN batch ELSE SubSeq(batch, 1, k - 1)
          IN  /\ rules' = rules \o done
              /\ \A i \in 1..Len(done) :
                    /\ Get(rules', done[i].id) = done[i]
                    /\ done[i].category \in DOMAIN ruleCategories'
                    /\ done[i].id \in ruleCategories'[done[i].category]
              /\ k = 0 => ret' = Void
              /\ k > 0 =>
                    /\ ret' = Threw(AlreadyRegistered(batch[k].id))
                    /\ \A i \in k..Len(batch) :
                          batch[i].id \notin IdsOf(rules) \cup IdsOf(done) =>
                              ~Has(rules', batch[i].id)
              /\ overrides' = overrides ]_vars

\* A batch that failed at its second rule, whose first rule is registered.
C21_Witness ==
    /\ Op("registerBatch") /\ "threw" \in DOMAIN ret
    /\ Len(call.rules) = 2
    /\ ret.threw = AlreadyRegistered(call.rules[2].id)
    /\ call.rules[1].id # call.rules[2].id
    /\ Get(rules, call.rules[1].id) = call.rules[1]
    /\ call.rules[1].id \in ruleCategories[call.rules[1].category]

\* getEffectiveRule was called for a registered rule that has an override.
EffectiveOfOverridden ==
    /\ Op("getEffectiveRule")
    /\ Registered(call.ruleId)
    /\ HasOverride(call.ruleId)

\* C23: an override is partial: the effective enabled flag of a registered
\* rule with an override is the override's when it sets one and the rule's
\* own (set or not) otherwise, and the effective options are the rule's
\* options with the override's option keys laid on top: an override key
\* replaces the rule's value for that key and every other key of the rule
\* is preserved.
C23_OverrideIsPartial ==
    EffectiveOfOverridden =>
        LET rule == Get(rules, call.ruleId)
            override == overrides[call.ruleId]
            effective == ret.value
            base == IF "options" \in DOMAIN rule THEN rule.options ELSE << >>
            over == IF "options" \in DOMAIN override THEN override.options ELSE << >>
        IN  /\ IF "enabled" \in DOMAIN override
               THEN "enabled" \in DOMAIN effective /\ effective.enabled = override.enabled
               ELSE /\ "enabled" \in DOMAIN effective <=> "enabled" \in DOMAIN rule
                    /\ "enabled" \in DOMAIN rule => effective.enabled = rule.enabled
            /\ "options" \in DOMAIN effective
            /\ DOMAIN effective.options = DOMAIN base \cup DOMAIN over
            /\ \A k \in DOMAIN over : effective.options[k] = over[k]
            /\ \A k \in DOMAIN base \ DOMAIN over : effective.options[k] = base[k]

\* An override with options on a rule that has an option the override does
\* not mention.
C23_Witness ==
    /\ EffectiveOfOverridden
    /\ "options" \in DOMAIN overrides[call.ruleId]
    /\ "options" \in DOMAIN Get(rules, call.ruleId)
    /\ DOMAIN Get(rules, call.ruleId).options \ DOMAIN overrides[call.ruleId].options # {}
    /\ DOMAIN overrides[call.ruleId].options \ DOMAIN Get(rules, call.ruleId).options # {}

-----------------------------------------------------------------------------
(* The registry on its own, with getStats *)

\* getStats() on the three maps.
GetStats(rs, cats, ovs) ==
    [totalRules |-> Len(rs),
     rulesByCategory |-> [c \in DOMAIN cats |-> Cardinality(cats[c])],
     enabledRules |-> Cardinality({i \in 1..Len(rs) : IsEnabled(rs, ovs, rs[i].id)}),
     overridesApplied |-> Cardinality(DOMAIN ovs)]

GetStatsCall ==
    /\ UNCHANGED <<rules, ruleCategories, overrides, cfgVars>>
    /\ call' = [op |-> "getStats"]
    /\ ret' = Value(GetStats(rules, ruleCategories, overrides))

RegistryNext ==
    \/ \E rule \in Rules : Register(rule)
    \/ \E batch \in SeqsUpTo(BatchRules, MaxBatch) : RegisterBatch(batch)
    \/ \E ruleConfigs \in ConfigMaps : ApplyOverrides(ruleConfigs)
    \/ ClearOverrides
    \/ Clear
    \/ \E ruleId \in AllIds, d \in DefaultSeverities : GetEffectiveRuleCall(ruleId, d)
    \/ \E ruleId \in AllIds : IsEnabledCall(ruleId)
    \/ GetStatsCall

SpecRegistry == Init /\ [][RegistryNext]_vars

-----------------------------------------------------------------------------
(* Properties of the registry, checked under SpecRegistry *)

\* The maps had the rule been registered first and the override stored for
\* its id applied afterwards.
RegisteredFirst(rule) ==
    LET registered == RegisterOn(rules, ruleCategories, rule)
    IN  [rules |-> registered.rules,
         overrides |-> ApplyOverridesOn(Drop(overrides, rule.id),
                                        (rule.id :> overrides[rule.id]))]

\* C28: applyOverrides and register commute.  applyOverrides stores the
\* override of every id of its map, registered or not, and getStats counts
\* it; registering a rule whose id has an override leaves the overrides as
\* they are, and the rule's effective rule and isEnabled are then what they
\* are with the rule registered first and the override applied afterwards;
\* an override leaves the map only by clearOverrides or clear.
C28_OverridesAwaitRegistration ==
    /\ [](Op("getStats") => ret.value.overridesApplied = Cardinality(DOMAIN overrides))
    /\ [][ /\ call'.op = "applyOverrides" =>
                \A id \in DOMAIN call'.ruleConfigs :
                    /\ id \in DOMAIN overrides'
                    /\ overrides'[id] = StoredOverride(call'.ruleConfigs[id])
           /\ \A id \in DOMAIN overrides :
                call'.op \notin {"clearOverrides", "clear"} =>
                    /\ id \in DOMAIN overrides'
                    /\ (call'.op # "applyOverrides" \/ id \notin DOMAIN call'.ruleConfigs)
                          => overrides'[id] = overrides[id]
           /\ (call'.op = "register" /\ ret' = Void /\ HasOverride(call'.rule.id)) =>
                LET first == RegisteredFirst(call'.rule)
                    id == call'.rule.id
                IN  /\ overrides' = overrides
                    /\ \A d \in DefaultSeverities :
                          GetEffectiveRule(rules', overrides', id, d) =
                             GetEffectiveRule(first.rules, first.overrides, id, d)
                    /\ IsEnabled(rules', overrides', id) =
                          IsEnabled(first.rules, first.overrides, id) ]_vars

\* A rule that is enabled by itself has just been registered under an id
\* whose override, applied before, disables it.
C28_Witness ==
    /\ Op("register") /\ ret = Void
    /\ HasOverride(call.rule.id)
    /\ "enabled" \in DOMAIN call.rule /\ call.rule.enabled
    /\ ~IsEnabled(rules, overrides, call.rule.id)
    /\ GetStats(rules, ruleCategories, overrides).overridesApplied >= 1

-----------------------------------------------------------------------------
(* ConfigParser: values *)

(* A string the parser takes apart (an extends entry) is the sequence of   *)
(* its pieces, the separators ":" "/" and "\\" being pieces of their own.    *)
(* A file path is the sequence of its segments from the root.              *)

\* Deepest chain of resolveExtends activations the model follows.
MaxDepth == 3

STRICT_RULESET ==
    [defaultSeverity |-> "error",
     rules |->
        ("paths-required" :> Bool(TRUE)) @@
        ("info-required" :> Bool(TRUE)) @@
        ("operation-id-required" :> Bool(TRUE)) @@
        ("operation-tags-required" :> Bool(TRUE)) @@
        ("operation-description-required" :> Bool(TRUE)) @@
        ("schema-properties-required" :> Bool(TRUE)) @@
        ("operation-description" :> [enabled |-> TRUE, severity |-> "error"]) @@
        ("operation-summary" :> [enabled |-> TRUE, severity |-> "warning"]) @@
        ("parameter-description" :> [enabled |-> TRUE, severity |-> "warning"]) @@
        ("schema-description" :> [enabled |-> TRUE, severity |-> "warning"]) @@
        ("path-naming-convention" :>
            [enabled |-> TRUE, severity |-> "error", options |-> [casing |-> "kebab"]]) @@
        ("http-status-codes" :> [enabled |-> TRUE, severity |-> "error"]) @@
        ("success-response-required" :> [enabled |-> TRUE, severity |-> "error"]) @@
        ("error-response-required" :> [enabled |-> TRUE, severity |-> "error"]) @@
        ("version-format" :> [enabled |-> TRUE, severity |-> "error"]) @@
        ("contact-info-required" :> [enabled |-> TRUE, severity |-> "warning"]) @@
        ("no-api-key-in-url" :> [enabled |-> TRUE, severity |-> "error"]) @@
        ("require-correlation-id" :> [enabled |-> TRUE, severity |-> "error"])]

STANDARD_RULESET ==
    [defaultSeverity |-> "warning",
     extends |-> "strict",
     rules |->
        ("operation-summary" :> [enabled |-> TRUE, severity |-> "info"]) @@
        ("parameter-description" :> [enabled |-> TRUE, severity |-> "info"]) @@
        ("schema-description" :> [enabled |-> TRUE, severity |-> "info"]) @@
        ("contact-info-required" :> [enabled |-> TRUE, severity |-> "info"])]

LENIENT_RULESET ==
    [defaultSeverity |-> "warning",
     rules |->
        ("paths-required" :> Bool(TRUE)) @@
        ("info-required" :> Bool(TRUE)) @@
        ("operation-tags-required" :> Bool(TRUE)) @@
        ("operation-description-required" :> Bool(TRUE)) @@
        ("http-status-codes" :> [enabled |-> TRUE, severity |-> "warning"]) @@
        ("success-response-required" :> [enabled |-> TRUE, severity |-> "warning"]) @@
        ("no-api-key-in-url" :> [enabled |-> TRUE, severity |-> "error"])]

DEFAULT_CONFIG ==
    [defaultSeverity |-> "warning",
     failOnWarnings |-> FALSE,
     showInfo |-> TRUE,
     files |-> <<[pattern |-> "openapi.{json,yaml,yml}"],
                 [pattern |-> "api/**/*.{json,yaml,yml}",
                  ignore |-> <<"**/node_modules/**", "**/.git/**">>]>>,
     rulesets |-> [strict |-> STRICT_RULESET,
                   standard |-> STANDARD_RULESET,
                   lenient |-> LENIENT_RULESET]]

\* The properties every object literal inherits from Object.prototype.
ObjectPrototypeKeys ==
    {"constructor", "toString", "toLocaleString", "valueOf", "hasOwnProperty",
     "isPrototypeOf", "propertyIsEnumerable", "__proto__", "__defineGetter__",
     "__defineSetter__", "__lookupGetter__", "__lookupSetter__"}

\* What reading such a property yields: a built-in function or object.
Inherited(key) == [inherited |-> key]

\* getPresetRuleset(level): rulesets[level] ?? null.  level is a string in
\* pieces; the lookup on the object literal finds its three own keys and the
\* keys it inherits, and anything else is undefined, hence null.
GetPresetRuleset(level) ==
    IF level = <<"strict">> THEN STRICT_RULESET
    ELSE IF level = <<"standard">> THEN STANDARD_RULESET
    ELSE IF level = <<"lenient">> THEN LENIENT_RULESET
    ELSE IF Len(level) = 1 /\ level[1] \in ObjectPrototypeKeys THEN Inherited(level[1])
    ELSE Null

-----------------------------------------------------------------------------
(* ConfigParser: strings and paths *)

Includes(str, piece) == \E i \in 1..Len(str) : str[i] = piece

\* str.split(sep): the runs of pieces between occurrences of sep.
RECURSIVE Split(_, _)
Split(str, sep) ==
    IF ~Includes(str, sep) THEN <<str>>
    ELSE LET i == CHOOSE k \in 1..Len(str) :
                     str[k] = sep /\ \A j \in 1..(k - 1) : str[j] # sep
         IN  <<SubSeq(str, 1, i - 1)>> \o Split(SubSeq(str, i + 1, Len(str)), sep)

\* path.dirname of an absolute path.
Dirname(filePath) == SubSeq(filePath, 1, Len(filePath) - 1)

\* One run of a relative path applied to a directory.
Step(dir, run) ==
    IF run = <<>> \/ run = <<".">> THEN dir
    ELSE IF run = <<"..">> THEN SubSeq(dir, 1, Len(dir) - 1)
    ELSE dir \o run

RECURSIVE Walk(_, _)
Walk(dir, runs) == IF runs = <<>> THEN dir ELSE Walk(Step(dir, Head(runs)), Tail(runs))

\* path.resolve(dir, ext): ext starting with "/" is absolute.
PathResolve(dir, ext) ==
    IF ext # <<>> /\ Head(ext) = "/" THEN Walk(<<>>, Split(ext, "/"))
    ELSE Walk(dir, Split(ext, "/"))

-----------------------------------------------------------------------------
(* ConfigParser: loadConfig *)

(* The content of a file is a parsed configuration, or one of              *)
(*   [unparsable |-> TRUE]   text that is neither valid JSON nor YAML,     *)
(*   [invalid |-> property]  a document validateConfig rejects at property.*)
(* A path outside DOMAIN files does not exist.                             *)

NotFoundError(filePath) == [error |-> "ConfigError", property |-> "configPath",
                            message |-> "Config file not found", value |-> filePath]
ParseError == [error |-> "ConfigError", property |-> "root",
               message |-> "Failed to parse config"]
ShapeError(property) == [error |-> "ConfigError", property |-> property,
                         message |-> "Invalid config"]

\* loadConfig without its cache check: the file is read on every call.
LoadConfigOnUncached(cache, disk, filePath) ==
    IF filePath \notin DOMAIN disk
    THEN [threw |-> NotFoundError(filePath), cache |-> cache]
    ELSE IF "unparsable" \in DOMAIN disk[filePath]
    THEN [threw |-> ParseError, cache |-> cache]
    ELSE IF "invalid" \in DOMAIN disk[filePath]
    THEN [threw |-> ShapeError(disk[filePath].invalid), cache |-> cache]
    ELSE [config |-> disk[filePath],
          cache |-> [q \in DOMAIN cache \cup {filePath} |->
                        IF q = filePath THEN disk[filePath] ELSE cache[q]]]

\* loadConfig(filePath) against a cache and a disk: the configuration or the
\* error thrown, and the cache afterwards.
LoadConfigOn(cache, disk, filePath) ==
    IF filePath \in DOMAIN cache
    THEN [config |-> cache[filePath], cache |-> cache]
    ELSE IF filePath \notin DOMAIN disk
    THEN [threw |-> NotFoundError(filePath), cache |-> cache]
    ELSE IF "unparsable" \in DOMAIN disk[filePath]
    THEN [threw |-> ParseError, cache |-> cache]
    ELSE IF "invalid" \in DOMAIN disk[filePath]
    THEN [threw |-> ShapeError(disk[filePath].invalid), cache |-> cache]
    ELSE [config |-> disk[filePath],
          cache |-> [q \in DOMAIN cache \cup {filePath} |->
                        IF q = filePath THEN disk[filePath] ELSE cache[q]]]

-----------------------------------------------------------------------------
(* ConfigParser: mergeConfigs *)

ScalarKeys == {"defaultSeverity", "failOnWarnings", "showInfo", "files"}
FixedKeys == ScalarKeys \cup {"rules", "rulesets", "extends"}

\* config[key] spread into an object literal: undefined spreads as {}.
MapOf(config, key) == IF key \in DOMAIN config THEN config[key] ELSE << >>

\* Mutant: override objects of the same rule id are combined field by field.
MergeConfigsDeep(parent, child) ==
    [k \in (ScalarKeys \cap (DOMAIN parent \cup DOMAIN child))
            \cup {"rules", "rulesets"} \cup (DOMAIN child \ FixedKeys) |->
        IF k \in ScalarKeys THEN (IF k \in DOMAIN child THEN child[k] ELSE parent[k])
        ELSE IF k \in {"rules", "rulesets"}
        THEN [id \in DOMAIN MapOf(parent, k) \cup DOMAIN MapOf(child, k) |->
                IF id \notin DOMAIN MapOf(child, k) THEN parent[k][id]
                ELSE IF id \notin DOMAIN MapOf(parent, k) THEN child[k][id]
                ELSE Spread(parent[k][id], child[k][id])]
        ELSE child[k]]

\* mergeConfigs(parent, child).  A property whose value is undefined is absent.
MergeConfigs(parent, child) ==
    [k \in (ScalarKeys \cap (DOMAIN parent \cup DOMAIN child))
            \cup {"rules", "rulesets"} \cup (DOMAIN child \ FixedKeys) |->
        IF k \in ScalarKeys THEN (IF k \in DOMAIN child THEN child[k] ELSE parent[k])
        ELSE IF k \in {"rules", "rulesets"} THEN Spread(MapOf(parent, k), MapOf(child, k))
        ELSE child[k]]

-----------------------------------------------------------------------------
(* ConfigParser: resolveExtends and loadAndResolve *)

(* config.extends is [str |-> s] for a string and [arr |-> <<s1, ...>>]    *)
(* for an array of strings.  resolveExtends is an async function: it is    *)
(* suspended at every await, so an activation is a frame                   *)
(*   [config, basePath, exts, merged]                                      *)
(* where exts are the entries of extendsArray the loop has not reached     *)
(* yet and merged is the accumulator.                                      *)

Pending == [pending |-> TRUE]

\* !config.extends: undefined and the empty string are falsy, an array is not.
HasExtends(config) ==
    "extends" \in DOMAIN config /\ config.extends # [str |-> <<>>]

ExtendsArray(config) ==
    IF "arr" \in DOMAIN config.extends THEN config.extends.arr ELSE <<config.extends.str>>

\* Mutant: an activation that does not follow the file references.
FramePresetsOnly(config, basePath) ==
    [config |-> config, basePath |-> basePath,
     exts |-> SelectSeq(ExtendsArray(config), LAMBDA ext : ~(Includes(ext, "/") \/ Includes(ext, "\\"))),
     merged |-> DEFAULT_CONFIG]

Frame(config, basePath) ==
    [config |-> config, basePath |-> basePath,
     exts |-> ExtendsArray(config), merged |-> DEFAULT_CONFIG]

IsFilePath(ext) == Includes(ext, "/") \/ Includes(ext, "\\")

PresetAlternatives == <<"api-guardian:strict", "api-guardian:standard", "api-guardian:lenient">>

UnknownPreset(ext) ==
    [error |-> "ConfigError", property |-> "extends", message |-> "Unknown preset ruleset",
     value |-> ext, suggestion |-> PresetAlternatives]
UnknownNamespace(ext) ==
    [error |-> "ConfigError", property |-> "extends", message |-> "Unknown extends namespace",
     value |-> ext, suggestion |-> PresetAlternatives]

\* Mutant: a preset's rule settings are handed on as top-level rules too.
PresetEntryApplyingRules(ext) ==
    LET parts == Split(ext, ":")
        namespace == parts[1]
        preset == IF Len(parts) >= 2 THEN parts[2] ELSE <<"undefined">>
    IN  IF namespace = <<"api-guardian">> \/ namespace = <<"preset">>
        THEN IF GetPresetRuleset(preset) = Null
             THEN [threw |-> UnknownPreset(ext)]
             ELSE [extConfig |-> [rulesets |-> (preset[1] :> GetPresetRuleset(preset)),
                                  rules |-> MapOf(GetPresetRuleset(preset), "rules")]]
        ELSE IF namespace = <<"spectral">> THEN [skip |-> TRUE]
        ELSE [threw |-> UnknownNamespace(ext)]

\* Mutant: the spectral namespace is not reserved and fails as unknown.
PresetEntrySpectralUnknown(ext) ==
    LET parts == Split(ext, ":")
        namespace == parts[1]
        preset == IF Len(parts) >= 2 THEN parts[2] ELSE <<"undefined">>
    IN  IF namespace = <<"api-guardian">> \/ namespace = <<"preset">>
        THEN IF GetPresetRuleset(preset) = Null
             THEN [threw |-> UnknownPreset(ext)]
             ELSE [extConfig |-> [rulesets |-> (preset[1] :> GetPresetRuleset(preset))]]
        ELSE [threw |-> UnknownNamespace(ext)]

\* An entry that is not a file path: the configuration it stands for, a skip,
\* or the error thrown.
PresetEntry(ext) ==
    LET parts == Split(ext, ":")
        namespace == parts[1]
        preset == IF Len(parts) >= 2 THEN parts[2] ELSE <<"undefined">>
    IN  IF namespace = <<"api-guardian">> \/ namespace = <<"preset">>
        THEN IF GetPresetRuleset(preset) = Null
             THEN [threw |-> UnknownPreset(ext)]
             ELSE [extConfig |-> [rulesets |-> (preset[1] :> GetPresetRuleset(preset))]]
        ELSE IF namespace = <<"spectral">> THEN [skip |-> TRUE]
        ELSE [threw |-> UnknownNamespace(ext)]

\* Mutant: the document is merged under what it extends instead of on top.
FinishUnder(frame) == MergeConfigs(frame.config, frame.merged)

\* After the loop: merged = mergeConfigs(merged, config); return merged.
Finish(frame) == MergeConfigs(frame.merged, frame.config)

\* merged = mergeConfigs(merged, extConfig) in the innermost activation of stk.
Deliver(stk, extConfig) ==
    [stk EXCEPT ![Len(stk)].merged = MergeConfigs(@, extConfig)]

\* loadConfig(filePath), called on its own.
LoadConfig(filePath) ==
    LET load == LoadConfigOn(loadedConfigs, files, filePath)
    IN  /\ stack = <<>>
        /\ loadedConfigs' = load.cache
        /\ call' = [op |-> "loadConfig", filePath |-> filePath]
        /\ ret' = IF "threw" \in DOMAIN load THEN Threw(load.threw) ELSE Value(load.config)
        /\ UNCHANGED <<regVars, files, stack>>

\* loadAndResolve(filePath) up to its first suspension inside resolveExtends.
LoadAndResolve(filePath) ==
    LET load == LoadConfigOn(loadedConfigs, files, filePath)
    IN  /\ stack = <<>>
        /\ loadedConfigs' = load.cache
        /\ call' = [op |-> "loadAndResolve", filePath |-> filePath]
        /\ IF "threw" \in DOMAIN load
           THEN ret' = Threw(load.threw) /\ stack' = <<>>
           ELSE IF ~HasExtends(load.config)
           THEN ret' = Value(Put(load.config, "configPath", filePath)) /\ stack' = <<>>
           ELSE ret' = Pending /\ stack' = <<Frame(load.config, filePath)>>
        /\ UNCHANGED <<regVars, files>>

\* The innermost resolveExtends activation runs to its next suspension: one
\* iteration of the loop over extendsArray, or the final merge and return.
ResolveStep ==
    /\ stack # <<>>
    /\ LET top == stack[Len(stack)]
           below == SubSeq(stack, 1, Len(stack) - 1)
       IN  IF top.exts = <<>>
           THEN /\ UNCHANGED loadedConfigs
                /\ IF below = <<>>
                   THEN /\ stack' = <<>>
                        /\ ret' = Value(Put(Finish(top), "configPath", call.filePath))
                   ELSE /\ stack' = Deliver(below, Finish(top))
                        /\ UNCHANGED ret
           ELSE LET ext == Head(top.exts)
                    here == below \o <<[top EXCEPT !.exts = Tail(@)]>>
                IN  IF IsFilePath(ext)
                    THEN LET extPath == PathResolve(Dirname(top.basePath), ext)
                             load == LoadConfigOn(loadedConfigs, files, extPath)
                         IN  /\ loadedConfigs' = load.cache
                             /\ IF "threw" \in DOMAIN load
                                THEN stack' = <<>> /\ ret' = Threw(load.threw)
                                ELSE IF ~HasExtends(load.config)
                                THEN stack' = Deliver(here, load.config) /\ UNCHANGED ret
                                ELSE /\ Len(stack) < MaxDepth
                                     /\ stack' = here \o <<Frame(load.config, extPath)>>
                                     /\ UNCHANGED ret
                    ELSE LET entry == PresetEntry(ext)
                         IN  /\ UNCHANGED loadedConfigs
                             /\ IF "threw" \in DOMAIN entry
                                THEN stack' = <<>> /\ ret' = Threw(entry.threw)
                                ELSE IF "skip" \in DOMAIN entry
                                THEN stack' = here /\ UNCHANGED ret
                                ELSE stack' = Deliver(here, entry.extConfig) /\ UNCHANGED ret
    /\ UNCHANGED <<regVars, files, call>>

ClearCache ==
    /\ stack = <<>>
    /\ loadedConfigs' = << >>
    /\ call' = [op |-> "clearCache"]
    /\ ret' = Void
    /\ UNCHANGED <<regVars, files, stack>>

-----------------------------------------------------------------------------
(* The parser over a disk of three configuration files *)

BasePath == <<"cfg", "base">>
MiddlePath == <<"cfg", "middle">>
TopPath == <<"cfg", "top">>
ConfigPaths == {BasePath, MiddlePath, TopPath}

ToBase == <<".", "/", "base">>
ToMiddle == <<".", "/", "middle">>

\* Rule maps of a file: every assignment of true/false to a subset of ids.
RuleMaps(ids) == UNION {[S -> {Bool(TRUE), Bool(FALSE)}] : S \in SUBSET ids}

BaseContents == {[rules |-> m] : m \in RuleMaps({"rule1", "rule2"})}

MiddleContents ==
    {[rules |-> m] : m \in RuleMaps({"rule2", "rule3"})}
    \cup {[extends |-> [arr |-> <<ToBase>>], rules |-> m] : m \in RuleMaps({"rule2", "rule3"})}

TopExtends ==
    { [arr |-> <<ToMiddle>>],
      [str |-> ToMiddle],
      [arr |-> <<ToBase, ToMiddle>>],
      [arr |-> <<ToMiddle, ToBase>>],
      [arr |-> <<<<"api-guardian", ":", "strict">>, ToBase, <<"spectral", ":", "oas">>>>] }

TopContents ==
    {[rules |-> m] : m \in RuleMaps({"rule3"})}
    \cup {[extends |-> e, rules |-> m] : e \in TopExtends, m \in RuleMaps({"rule3"})}

Disks ==
    {(BasePath :> b) @@ (MiddlePath :> m) @@ (TopPath :> t) :
        b \in BaseContents, m \in MiddleContents, t \in TopContents}

ConfigInit ==
    /\ RegistryInit
    /\ ParserInit
    /\ files \in Disks
    /\ call = [op |-> "new"]
    /\ ret = Void

ConfigNext ==
    \/ \E filePath \in ConfigPaths : LoadConfig(filePath)
    \/ \E filePath \in ConfigPaths : LoadAndResolve(filePath)
    \/ ResolveStep
    \/ ClearCache

SpecConfig == ConfigInit /\ [][ConfigNext]_vars

-----------------------------------------------------------------------------
(* The parser over disks whose extends lists hold entries that name no      *)
(* preset and no known namespace                                            *)

\* Entries that are no file path: an unknown preset name under either preset
\* namespace, an unknown namespace, a bare word, a bare preset namespace, and
\* a preset name that is a key every object inherits.
OddEntries ==
    { <<"api-guardian", ":", "unknown-preset">>,
      <<"preset", ":", "fast">>,
      <<"unknown", ":", "something">>,
      <<"recommended">>,
      <<"api-guardian">>,
      <<"api-guardian", ":", "constructor">> }

StrictEntry == <<"api-guardian", ":", "strict">>
SpectralEntry == <<"spectral", ":", "oas">>

OddBase == [rules |-> [rule1 |-> Bool(TRUE)]]

OddMiddleContents ==
    { [rules |-> [rule2 |-> Bool(TRUE)]],
      [extends |-> [arr |-> <<ToBase>>], rules |-> [rule2 |-> Bool(TRUE)]] }
    \cup {[extends |-> [arr |-> <<ToBase, e>>], rules |-> [rule2 |-> Bool(TRUE)]] :
             e \in OddEntries}
    \cup {[extends |-> [arr |-> <<e, ToBase>>]] : e \in OddEntries}

OddTopContents ==
    { [extends |-> [arr |-> <<ToMiddle>>], rules |-> [rule3 |-> Bool(FALSE)]],
      [extends |-> [arr |-> <<StrictEntry, ToMiddle, SpectralEntry>>]] }
    \cup {[extends |-> [str |-> e]] : e \in OddEntries}
    \cup {[extends |-> [arr |-> <<e, ToMiddle>>]] : e \in OddEntries}
    \cup {[extends |-> [arr |-> <<ToBase, e>>], rules |-> [rule3 |-> Bool(FALSE)]] :
             e \in OddEntries}
    \cup {[extends |-> [arr |-> <<StrictEntry, e, SpectralEntry>>]] : e \in OddEntries}

OddDisks ==
    {(BasePath :> OddBase) @@ (MiddlePath :> m) @@ (TopPath :> t) :
        m \in OddMiddleContents, t \in OddTopContents}

OddInit ==
    /\ RegistryInit
    /\ ParserInit
    /\ files \in OddDisks
    /\ call = [op |-> "new"]
    /\ ret = Void

SpecOddExtends == OddInit /\ [][ConfigNext]_vars

-----------------------------------------------------------------------------
(* The parser over a disk that changes between calls                        *)

CachePaths == {BasePath, TopPath}

\* What a file can hold: one of two configurations, for the top file also a
\* configuration that extends the base file, text that does not parse, or a
\* parsed value that validateConfig rejects.
CacheContents(path) ==
    { [rules |-> [rule1 |-> Bool(TRUE)]],
      [rules |-> [rule1 |-> Bool(FALSE)]],
      [unparsable |-> TRUE],
      [invalid |-> "rules"] }
    \cup (IF path = TopPath THEN {[extends |-> [arr |-> <<ToBase>>]]} ELSE {})

\* The file at path is written (fs.writeFileSync).  call names the write,
\* unless a loadAndResolve is in flight, which call keeps naming.
WriteFile(path, content) ==
    /\ files' = [q \in DOMAIN files \cup {path} |-> IF q = path THEN content ELSE files[q]]
    /\ IF stack = <<>>
       THEN call' = [op |-> "writeFile", filePath |-> path] /\ ret' = Void
       ELSE UNCHANGED <<call, ret>>
    /\ UNCHANGED <<regVars, loadedConfigs, stack>>

\* The file at path is removed (fs.unlinkSync).
RemoveFile(path) ==
    /\ path \in DOMAIN files
    /\ files' = [q \in DOMAIN files \ {path} |-> files[q]]
    /\ IF stack = <<>>
       THEN call' = [op |-> "removeFile", filePath |-> path] /\ ret' = Void
       ELSE UNCHANGED <<call, ret>>
    /\ UNCHANGED <<regVars, loadedConfigs, stack>>

CacheInit ==
    /\ RegistryInit
    /\ ParserInit
    /\ files = << >>
    /\ call = [op |-> "new"]
    /\ ret = Void

CacheNext ==
    \/ \E path \in CachePaths : \E content \in CacheContents(path) : WriteFile(path, content)
    \/ \E path \in CachePaths : RemoveFile(path)
    \/ \E filePath \in CachePaths : LoadConfig(filePath)
    \/ \E filePath \in CachePaths : LoadAndResolve(filePath)
    \/ ResolveStep
    \/ ClearCache

SpecCache == CacheInit /\ [][CacheNext]_vars

-----------------------------------------------------------------------------
(* ConfigParser: applyOverrides *)

\* overrides.x as a condition: supplied and true.
Set(cli, key) == key \in DOMAIN cli /\ cli[key] = TRUE

\* file.ignore ?? []
IgnoreOf(file) == IF "ignore" \in DOMAIN file THEN file.ignore ELSE << >>

\* result.files.map(file => ({...file, ignore: [...(file.ignore ?? []), ...ignorePaths]}))
AppendIgnore(fileConfigs, ignorePaths) ==
    [i \in 1..Len(fileConfigs) |->
        Put(fileConfigs[i], "ignore", IgnoreOf(fileConfigs[i]) \o ignorePaths)]

\* applyOverrides(config, overrides): the configuration returned, and the
\* argument config as the call leaves it.  result is a shallow copy, so
\* result.rulesets is config.rulesets whenever config has one, and the preset
\* stored under it is stored in both.  overrides.ruleset is a string in one
\* piece.
ConfigApplyOverrides(config, cli) ==
    LET ruleset == IF "ruleset" \in DOMAIN cli
                   THEN GetPresetRuleset(cli.ruleset) ELSE Null
        injects == ruleset # Null
        shared == "rulesets" \in DOMAIN config
        rulesets == Put(IF shared THEN config.rulesets ELSE << >>,
                        cli.ruleset[1], ruleset)
        r1 == IF injects
              THEN Put(Put(config, "rulesets", rulesets), "activeRuleset", cli.ruleset[1])
              ELSE config
        r2 == IF "ignorePaths" \in DOMAIN cli /\ "files" \in DOMAIN r1
              THEN Put(r1, "files", AppendIgnore(r1.files, cli.ignorePaths))
              ELSE r1
        r3 == IF "format" \in DOMAIN cli /\ Truthy(cli.format)
              THEN Put(r2, "outputFormat", cli.format) ELSE r2
        r4 == IF Set(cli, "verbose") THEN Put(r3, "verbose", TRUE) ELSE r3
        r5 == IF Set(cli, "watch") THEN Put(r4, "watch", TRUE) ELSE r4
        r6 == IF Set(cli, "fix") THEN Put(r5, "fix", TRUE) ELSE r5
    IN  [result |-> r6,
         config |-> IF injects /\ shared THEN Put(config, "rulesets", rulesets) ELSE config]

-----------------------------------------------------------------------------
(* applyOverrides on its own, over a family of configurations and cli *)

\* An optional property: absent, or one of the values.
Maybe(key, values) == {<< >>} \cup {(key :> v) : v \in values}

\* Resolved configurations: what a file said about verbose, watch, fix and
\* the output format, its rulesets and its file patterns.
CliConfigs ==
    LET rulesetParts ==
            { << >>,
              [rulesets |-> [strict |-> [rules |-> [rule1 |-> Bool(FALSE)]]]],
              [rulesets |-> [custom |-> [rules |-> [rule1 |-> Bool(TRUE)]]],
               activeRuleset |-> "custom"] }
        fileParts ==
            { << >>,
              [files |-> <<[pattern |-> "a"]>>],
              [files |-> <<[pattern |-> "a", ignore |-> <<"tmp">>], [pattern |-> "b"]>>] }
    IN  {Spread(Spread(Spread(Spread(Spread(v, w), f), o), rs), fs) :
            v \in Maybe("verbose", BOOLEAN), w \in Maybe("watch", {TRUE}),
            f \in Maybe("fix", {TRUE}), o \in Maybe("outputFormat", {"text"}),
            rs \in rulesetParts, fs \in fileParts}

\* CLI overrides: each option absent or supplied; a flag supplied true or
\* false; a ruleset that is a preset, an unknown name or an inherited key.
CliOverrides ==
    {Spread(Spread(Spread(Spread(Spread(r, v), w), f), o), i) :
        r \in Maybe("ruleset", {<<"strict">>, <<"lenient">>, <<"fast">>, <<"constructor">>}),
        v \in Maybe("verbose", BOOLEAN), w \in Maybe("watch", BOOLEAN),
        f \in Maybe("fix", BOOLEAN), o \in Maybe("format", {"json"}),
        i \in Maybe("ignorePaths", {<< >>, <<"dist">>})}

CliInit ==
    /\ RegistryInit
    /\ ParserInit
    /\ files = << >>
    /\ \E config \in CliConfigs, cli \in CliOverrides :
          call = [op |-> "applyOverrides", config |-> config, overrides |-> cli]
    /\ ret = Pending

\* applyOverrides(config, overrides): ret is the configuration returned, and
\* call.after the argument config as the call leaves it.
ConfigApplyOverridesCall ==
    /\ call.op = "applyOverrides"
    /\ ret = Pending
    /\ LET out == ConfigApplyOverrides(call.config, call.overrides)
       IN  /\ ret' = Value(out.result)
           /\ call' = Put(call, "after", out.config)
    /\ UNCHANGED <<regVars, cfgVars>>

CliNext == ConfigApplyOverridesCall

SpecCli == CliInit /\ [][CliNext]_vars

-----------------------------------------------------------------------------
(* The parser over disks whose files extend one another in cycles           *)

ToTop == <<".", "/", "top">>
ToMissing == <<".", "/", "missing">>
UnknownEntry == <<"unknown", ":", "something">>

CycleBaseContents ==
    { [rules |-> [rule1 |-> Bool(TRUE)]],
      [extends |-> [arr |-> <<StrictEntry>>], rules |-> [rule1 |-> Bool(TRUE)]],
      [extends |-> [arr |-> <<ToTop>>]],
      [extends |-> [str |-> ToBase]],
      [extends |-> [arr |-> <<UnknownEntry, ToBase>>]],
      [unparsable |-> TRUE] }

CycleMiddleContents ==
    { [rules |-> [rule2 |-> Bool(TRUE)]],
      [extends |-> [arr |-> <<ToBase>>], rules |-> [rule2 |-> Bool(TRUE)]],
      [extends |-> [arr |-> <<ToBase, ToMiddle>>]],
      [extends |-> [arr |-> <<StrictEntry, ToTop>>]],
      [extends |-> [arr |-> <<UnknownEntry, ToTop>>]] }

CycleTopContents ==
    { [rules |-> [rule3 |-> Bool(TRUE)]],
      [extends |-> [arr |-> <<ToMiddle>>], rules |-> [rule3 |-> Bool(TRUE)]],
      [extends |-> [arr |-> <<ToBase, ToMiddle>>]],
      [extends |-> [str |-> ToTop]],
      [extends |-> [arr |-> <<ToMissing, ToTop>>]] }

CycleDisks ==
    {(BasePath :> b) @@ (MiddlePath :> m) @@ (TopPath :> t) :
        b \in CycleBaseContents, m \in CycleMiddleContents, t \in CycleTopContents}

CycleInit ==
    /\ RegistryInit
    /\ ParserInit
    /\ files \in CycleDisks
    /\ call = [op |-> "new"]
    /\ ret = Void

\* An activation of resolveExtends that is not waiting for a deeper one goes
\* on: its awaits are of promises that settle.
SpecCycle == CycleInit /\ [][ConfigNext]_vars /\ WF_vars(ResolveStep)

-----------------------------------------------------------------------------
(* resolveExtends run to its end over a disk that does not change           *)

\* resolveExtends(config, basePath) over disk, every await followed to its
\* end: [config |-> the configuration returned] or [threw |-> the error].
\* The files are read from disk: a cached copy is the file's content as long
\* as the disk does not change.
RECURSIVE ResolveExtendsOn(_, _, _)
RECURSIVE ResolveEntriesOn(_, _, _, _)
ResolveExtendsOn(disk, config, basePath) ==
    IF ~HasExtends(config) THEN [config |-> config]
    ELSE LET looped == ResolveEntriesOn(disk, ExtendsArray(config), basePath, DEFAULT_CONFIG)
         IN  IF "threw" \in DOMAIN looped THEN looped
             ELSE [config |-> MergeConfigs(looped.config, config)]

ResolveEntriesOn(disk, exts, basePath, merged) ==
    IF exts = <<>> THEN [config |-> merged]
    ELSE LET ext == Head(exts)
             extPath == PathResolve(Dirname(basePath), ext)
             load == LoadConfigOn(<< >>, disk, extPath)
             ext1 == IF IsFilePath(ext)
                     THEN IF "threw" \in DOMAIN load THEN [threw |-> load.threw]
                          ELSE ResolveExtendsOn(disk, load.config, extPath)
                     ELSE PresetEntry(ext)
         IN  IF "threw" \in DOMAIN ext1 THEN [threw |-> ext1.threw]
             ELSE IF "skip" \in DOMAIN ext1
             THEN ResolveEntriesOn(disk, Tail(exts), basePath, merged)
             ELSE ResolveEntriesOn(disk, Tail(exts), basePath,
                                   MergeConfigs(merged, IF "extConfig" \in DOMAIN ext1
                                                        THEN ext1.extConfig ELSE ext1.config))

\* loadAndResolve(filePath) over disk, followed to its end.
LoadAndResolveOn(disk, filePath) ==
    LET load == LoadConfigOn(<< >>, disk, filePath)
        resolved == ResolveExtendsOn(disk, load.config, filePath)
    IN  IF "threw" \in DOMAIN load THEN Threw(load.threw)
        ELSE IF "threw" \in DOMAIN resolved THEN Threw(resolved.threw)
        ELSE Value(Put(resolved.config, "configPath", filePath))

-----------------------------------------------------------------------------
(* The parser over disks whose extends arrays hold spectral entries         *)

SpectralEntries ==
    {SpectralEntry, <<"spectral", ":", "strict">>, <<"spectral">>}

SpectralBase == [rules |-> [rule1 |-> Bool(TRUE)], defaultSeverity |-> "error"]

SpectralMiddleContents ==
    { [rules |-> [rule1 |-> Bool(FALSE), rule2 |-> Bool(TRUE)], showInfo |-> FALSE],
      [extends |-> [arr |-> <<SpectralEntry, ToBase>>], rules |-> [rule2 |-> Bool(TRUE)]] }

SpectralTopExtends ==
    {<<ToBase, ToMiddle>>, <<ToMiddle, ToBase>>, <<UnknownEntry>>}
    \cup {<<e>> : e \in SpectralEntries}
    \cup {<<e, ToBase, ToMiddle>> : e \in SpectralEntries}
    \cup {<<ToMiddle, e, ToBase>> : e \in SpectralEntries}
    \cup {<<StrictEntry, ToBase, e>> : e \in SpectralEntries}
    \cup {<<e, ToMiddle, SpectralEntry, StrictEntry>> : e \in SpectralEntries}
    \cup {<<e, UnknownEntry>> : e \in SpectralEntries}

SpectralTopContents ==
    {[extends |-> [arr |-> a]] : a \in SpectralTopExtends}
    \cup {[extends |-> [arr |-> a], rules |-> [rule3 |-> Bool(TRUE)], failOnWarnings |-> TRUE] :
             a \in SpectralTopExtends}

SpectralDisks ==
    {(BasePath :> SpectralBase) @@ (MiddlePath :> m) @@ (TopPath :> t) :
        m \in SpectralMiddleContents, t \in SpectralTopContents}

SpectralInit ==
    /\ RegistryInit
    /\ ParserInit
    /\ files \in SpectralDisks
    /\ call = [op |-> "new"]
    /\ ret = Void

SpecSpectral == SpectralInit /\ [][ConfigNext]_vars

-----------------------------------------------------------------------------
(* The parser over disks whose files set scalars and file patterns          *)

ScalarBaseContents ==
    { [defaultSeverity |-> "error", failOnWarnings |-> TRUE,
       files |-> <<[pattern |-> "specs/*.yaml"]>>],
      [showInfo |-> FALSE, rules |-> [rule1 |-> Bool(TRUE)]] }

ScalarMiddleContents ==
    { [rules |-> [rule2 |-> Bool(TRUE)]],
      [showInfo |-> TRUE, defaultSeverity |-> "info"],
      [extends |-> [arr |-> <<StrictEntry>>], rules |-> [rule2 |-> Bool(TRUE)]],
      [extends |-> [arr |-> <<StrictEntry>>], defaultSeverity |-> "info"],
      [extends |-> [arr |-> << >>]],
      [extends |-> [arr |-> <<ToBase>>], rules |-> [rule2 |-> Bool(TRUE)]] }

ScalarTopContents ==
    { [extends |-> [arr |-> <<ToBase, ToMiddle>>]],
      [extends |-> [arr |-> <<ToMiddle, ToBase>>]],
      [extends |-> [arr |-> <<ToBase, ToMiddle>>], failOnWarnings |-> FALSE,
       rules |-> [rule3 |-> Bool(TRUE)]],
      [extends |-> [arr |-> <<ToBase, StrictEntry>>]],
      [extends |-> [str |-> ToMiddle], defaultSeverity |-> "hint"],
      [defaultSeverity |-> "hint"] }

ScalarDisks ==
    {(BasePath :> b) @@ (MiddlePath :> m) @@ (TopPath :> t) :
        b \in ScalarBaseContents, m \in ScalarMiddleContents, t \in ScalarTopContents}

ScalarInit ==
    /\ RegistryInit
    /\ ParserInit
    /\ files \in ScalarDisks
    /\ call = [op |-> "new"]
    /\ ret = Void

SpecScalars == ScalarInit /\ [][ConfigNext]_vars

-----------------------------------------------------------------------------
(* The parser over disks whose files extend built-in presets, and the       *)
(* Validator constructed from what it resolves                              *)

\* The methods class Validator defines for its configuration.
ValidatorConfigMethods == {"initializeConfigAsync"}

\* new Validator(validatorConfig) with useBuiltInRules false: the registry
\* of the new object, or the error the constructor throws.  With a config
\* the constructor calls this.initializeConfig, which the class does not
\* define; without one this.config stays undefined and no override is applied.
NewValidatorOn(validatorConfig) ==
    IF "config" \in DOMAIN validatorConfig /\ "initializeConfig" \notin ValidatorConfigMethods
    THEN [threw |-> <<"this.initializeConfig", "is not a function">>]
    ELSE LET batch == RegisterBatchOn(<<>>, << >>, MapOf(validatorConfig, "customRules"))
             config == MapOf(validatorConfig, "config")
         IN  IF batch.threw THEN [threw |-> AlreadyRegistered(batch.at)]
             ELSE [rules |-> batch.rules, ruleCategories |-> batch.ruleCategories,
                   overrides |-> IF "rules" \in DOMAIN config
                                 THEN ApplyOverridesOn(<< >>, config.rules) ELSE << >>]

\* A Validator is constructed; the one constructed replaces the one in use.
NewValidator(validatorConfig) ==
    LET new == NewValidatorOn(validatorConfig)
    IN  /\ stack = <<>>
        /\ call' = [op |-> "newValidator", validatorConfig |-> validatorConfig]
        /\ IF "threw" \in DOMAIN new
           THEN ret' = Threw(new.threw) /\ UNCHANGED regVars
           ELSE /\ ret' = Void
                /\ rules' = new.rules
                /\ ruleCategories' = new.ruleCategories
                /\ overrides' = new.overrides
        /\ UNCHANGED cfgVars

LenientEntry == <<"preset", ":", "lenient">>
StandardEntry == <<"api-guardian", ":", "standard">>

PresetBaseContents ==
    { [rules |-> [rule1 |-> Bool(TRUE)], defaultSeverity |-> "info",
       rulesets |-> [strict |-> [rules |-> [rule1 |-> Bool(FALSE)]]]],
      [rules |-> [rule1 |-> Bool(FALSE)]] }

PresetMiddleContents ==
    { [rules |-> [rule2 |-> Bool(FALSE)]],
      [extends |-> [arr |-> <<StandardEntry>>], rules |-> [rule2 |-> Bool(TRUE)]] }

PresetTopExtends ==
    { [arr |-> <<StrictEntry>>],
      [str |-> StrictEntry],
      [arr |-> <<LenientEntry>>],
      [arr |-> <<ToBase, StrictEntry>>],
      [arr |-> <<StrictEntry, ToBase>>],
      [arr |-> <<ToMiddle, StrictEntry, ToBase>>],
      [arr |-> <<StrictEntry, LenientEntry>>],
      [arr |-> <<ToBase, ToMiddle>>] }

PresetTopContents ==
    {[extends |-> e] : e \in PresetTopExtends}
    \cup {[extends |-> e, rules |-> [rule3 |-> Bool(TRUE)], showInfo |-> FALSE] :
             e \in PresetTopExtends}

PresetDisks ==
    {(BasePath :> b) @@ (MiddlePath :> m) @@ (TopPath :> t) :
        b \in PresetBaseContents, m \in PresetMiddleContents, t \in PresetTopContents}

PresetInit ==
    /\ RegistryInit
    /\ ParserInit
    /\ files \in PresetDisks
    /\ call = [op |-> "new"]
    /\ ret = Void

\* The parser's methods, and new Validator with the configuration that was
\* just resolved or with custom rules only.
PresetNext ==
    \/ \E filePath \in ConfigPaths : LoadConfig(filePath)
    \/ \E filePath \in ConfigPaths : LoadAndResolve(filePath)
    \/ ResolveStep
    \/ ClearCache
    \/ /\ call.op = "loadAndResolve" /\ "value" \in DOMAIN ret
       /\ NewValidator([useBuiltInRules |-> FALSE, config |-> ret.value])
    \/ \E batch \in SeqsUpTo(BatchRules, 1) :
          NewValidator([useBuiltInRules |-> FALSE, customRules |-> batch])

SpecPresets == PresetInit /\ [][PresetNext]_vars

-----------------------------------------------------------------------------
(* mergeConfigs on its own, over a family of parent and child configurations *)

MergeRuleValues ==
    { Bool(TRUE), Bool(FALSE), [severity |-> "warning"],
      [enabled |-> FALSE, options |-> [casing |-> "kebab"]] }

MergeRulesets ==
    { [custom |-> [rules |-> [a |-> Bool(TRUE)]]],
      [custom |-> [defaultSeverity |-> "error"], strict |-> [rules |-> [b |-> Bool(FALSE)]]] }

\* A configuration with rules over ids, with or without rulesets and scalars.
MergeInputs(ids) ==
    LET ruleParts == {<< >>} \cup
                     {[rules |-> m] : m \in UNION {[S -> MergeRuleValues] : S \in SUBSET ids}}
        rulesetParts == {<< >>} \cup {[rulesets |-> r] : r \in MergeRulesets}
        scalarParts == {<< >>, [defaultSeverity |-> "error", owner |-> "team"]}
    IN  {Spread(Spread(r, rs), sc) : r \in ruleParts, rs \in rulesetParts, sc \in scalarParts}

MergeInit ==
    /\ RegistryInit
    /\ ParserInit
    /\ files = << >>
    /\ \E parent \in MergeInputs({"a", "b"}), child \in MergeInputs({"b", "c"}) :
          call = [op |-> "mergeConfigs", parent |-> parent, child |-> child]
    /\ ret = Pending

MergeConfigsCall ==
    /\ call.op = "mergeConfigs"
    /\ ret = Pending
    /\ ret' = Value(MergeConfigs(call.parent, call.child))
    /\ UNCHANGED <<regVars, cfgVars, call>>

MergeNext == MergeConfigsCall

SpecMerge == MergeInit /\ [][MergeNext]_vars

-----------------------------------------------------------------------------
(* Properties of the configuration resolver *)

\* The paths of the file entries of a file's extends array, in array order.
FileEntries(path) ==
    LET exts == ExtendsArray(files[path])
        isFile(i) == IsFilePath(exts[i])
        fileIdx == {i \in 1..Len(exts) : isFile(i)}
        nth(k) == CHOOSE i \in fileIdx : Cardinality({j \in fileIdx : j < i}) = k - 1
    IN  [k \in 1..Cardinality(fileIdx) |-> PathResolve(Dirname(path), exts[nth(k)])]

\* The precedence C3 states, level by level: the document's own value, else
\* that of the latest entry whose resolved configuration sets the rule.
RECURSIVE PrecedenceRules(_)
PrecedenceRules(path) ==
    LET own == MapOf(files[path], "rules")
    IN  IF ~HasExtends(files[path]) THEN own
        ELSE LET entries == FileEntries(path)
                 setBy(id) == {k \in 1..Len(entries) : id \in DOMAIN PrecedenceRules(entries[k])}
                 latest(id) == CHOOSE k \in setBy(id) : \A j \in setBy(id) : j <= k
             IN  [id \in DOMAIN own \cup UNION {DOMAIN PrecedenceRules(entries[k]) :
                                                    k \in 1..Len(entries)} |->
                    IF id \in DOMAIN own THEN own[id]
                    ELSE PrecedenceRules(entries[latest(id)])[id]]

\* C3: resolving a configuration with an extends chain of files gives every
\* rule id the value the document itself sets, otherwise the value of the
\* latest entry of its extends array whose own resolved configuration sets
\* it, and so recursively at every level; a rule no level sets is absent.
C3_ExtendsPrecedence ==
    (Op("loadAndResolve") /\ Returned) =>
        MapOf(ret.value, "rules") = PrecedenceRules(call.filePath)

\* base <- middle <- top with the rule settings of the repository's test.
C3_Witness ==
    /\ Op("loadAndResolve") /\ Returned /\ call.filePath = TopPath
    /\ files[BasePath] = [rules |-> [rule1 |-> Bool(TRUE), rule2 |-> Bool(FALSE)]]
    /\ files[MiddlePath] = [extends |-> [arr |-> <<ToBase>>],
                            rules |-> [rule2 |-> Bool(TRUE), rule3 |-> Bool(TRUE)]]
    /\ files[TopPath] = [extends |-> [arr |-> <<ToMiddle>>],
                         rules |-> [rule3 |-> Bool(FALSE)]]
    /\ ret.value.rules = [rule1 |-> Bool(TRUE), rule2 |-> Bool(TRUE), rule3 |-> Bool(FALSE)]

\* The parts of an entry that is no file path.
NamespaceOf(ext) == Split(ext, ":")[1]
NameOf(ext) == IF Len(Split(ext, ":")) >= 2 THEN Split(ext, ":")[2] ELSE <<>>

\* An entry C18 says must fail: no file path, and either a preset namespace
\* with a name other than strict, standard, lenient, or a namespace other
\* than api-guardian, preset, spectral (a bare word being its own namespace).
MustFail(ext) ==
    /\ ~IsFilePath(ext)
    /\ IF NamespaceOf(ext) \in {<<"api-guardian">>, <<"preset">>}
       THEN NameOf(ext) \notin {<<"strict">>, <<"standard">>, <<"lenient">>}
       ELSE NamespaceOf(ext) # <<"spectral">>

\* Resolving the file at path meets an entry that must fail, in its own list
\* or in that of a file it extends.
RECURSIVE MeetsMustFail(_)
MeetsMustFail(path) ==
    /\ HasExtends(files[path])
    /\ \E i \in 1..Len(ExtendsArray(files[path])) :
          LET ext == ExtendsArray(files[path])[i]
          IN  IF IsFilePath(ext) THEN MeetsMustFail(PathResolve(Dirname(path), ext))
              ELSE MustFail(ext)

\* C18: resolving a configuration that meets, at any position of its extends
\* list or of that of a nested extended file, an entry that is no path and
\* has a preset namespace with a name other than strict, standard, lenient,
\* or a namespace other than api-guardian, preset, spectral, fails with a
\* ConfigError that names the valid presets; nothing merged is returned.
C18_AsStated ==
    (Op("loadAndResolve") /\ ret # Pending /\ MeetsMustFail(call.filePath)) =>
        /\ "threw" \in DOMAIN ret
        /\ ret.threw.error = "ConfigError"
        /\ "suggestion" \in DOMAIN ret.threw
        /\ ret.threw.suggestion = PresetAlternatives

\* A file content that loadConfig accepts.
Loadable(content) == "unparsable" \notin DOMAIN content /\ "invalid" \notin DOMAIN content

\* What the last call leaves in the cache.
CacheAfterCall ==
    /\ Op("clearCache") => loadedConfigs = << >>
    /\ (Op("loadConfig") /\ "threw" \in DOMAIN ret) =>
           call.filePath \notin DOMAIN loadedConfigs
    /\ (Op("loadConfig") /\ Returned) =>
           /\ call.filePath \in DOMAIN loadedConfigs
           /\ loadedConfigs[call.filePath] = ret.value

\* What one step does to the cache.
CacheStep ==
    /\ \A p \in DOMAIN loadedConfigs :
          ~Op("clearCache")' =>
              p \in DOMAIN loadedConfigs' /\ loadedConfigs'[p] = loadedConfigs[p]
    /\ \A p \in DOMAIN loadedConfigs' \ DOMAIN loadedConfigs :
          /\ call'.op \in {"loadConfig", "loadAndResolve"}
          /\ p \in DOMAIN files
          /\ Loadable(files[p])
          /\ loadedConfigs'[p] = files[p]
    /\ (Op("loadConfig")' /\ call'.filePath \in DOMAIN loadedConfigs) =>
          /\ ret' = Value(loadedConfigs[call'.filePath])
          /\ loadedConfigs' = loadedConfigs
    /\ (Op("loadConfig")' /\ "threw" \in DOMAIN ret') => loadedConfigs' = loadedConfigs
    /\ (Op("loadConfig")' /\ Returned' /\ call'.filePath \notin DOMAIN loadedConfigs) =>
          DOMAIN loadedConfigs' = DOMAIN loadedConfigs \cup {call'.filePath}

\* C19: the cache holds exactly the paths loaded successfully since
\* construction or the last clearCache: a cached path keeps its configuration
\* and loadConfig returns it without reading the file, whatever the file holds
\* by then, until clearCache; an entry appears only for a file just loaded
\* successfully; a loadConfig that fails adds no entry; clearCache empties
\* the cache.
C19_CacheHoldsLoaded == [](CacheAfterCall) /\ [][CacheStep]_vars

\* loadConfig returned a cached configuration although the file has changed,
\* no longer loads, or is gone.
C19_Witness ==
    /\ Op("loadConfig")
    /\ Returned
    /\ \/ call.filePath \notin DOMAIN files
       \/ files[call.filePath] # ret.value

PresetNames == {<<"strict">>, <<"standard">>, <<"lenient">>}

\* C20: applyOverrides returns a configuration in which each of verbose,
\* watch and fix that the overrides supply, true or false, has the supplied
\* value, a supplied format is the output format, and a supplied preset
\* ruleset name is activeRuleset with that preset under rulesets, whatever
\* the configuration said.
C20_AsStated ==
    (Op("applyOverrides") /\ Returned) =>
        LET cli == call.overrides
            result == ret.value
        IN  /\ \A flag \in {"verbose", "watch", "fix"} \cap DOMAIN cli :
                  flag \in DOMAIN result /\ result[flag] = cli[flag]
            /\ "format" \in DOMAIN cli =>
                  "outputFormat" \in DOMAIN result /\ result.outputFormat = cli.format
            /\ ("ruleset" \in DOMAIN cli /\ cli.ruleset \in PresetNames) =>
                  /\ "activeRuleset" \in DOMAIN result
                  /\ result.activeRuleset = cli.ruleset[1]
                  /\ "rulesets" \in DOMAIN result
                  /\ cli.ruleset[1] \in DOMAIN result.rulesets
                  /\ result.rulesets[cli.ruleset[1]] = GetPresetRuleset(cli.ruleset)

\* The files a file refers to in its extends.
Refs(path) ==
    IF path \in DOMAIN files /\ Loadable(files[path]) /\ HasExtends(files[path])
    THEN {PathResolve(Dirname(path), ExtendsArray(files[path])[i]) :
             i \in {j \in 1..Len(ExtendsArray(files[path])) :
                       IsFilePath(ExtendsArray(files[path])[j])}}
    ELSE {}

\* The files reached from the files of S by n references or fewer.
RECURSIVE ReachedFrom(_, _)
ReachedFrom(S, n) ==
    IF n = 0 THEN S ELSE ReachedFrom(S \cup UNION {Refs(p) : p \in S}, n - 1)

\* path extends, directly or transitively, a file that extends itself.
Cyclic(path) ==
    \E q \in ReachedFrom({path}, Cardinality(DOMAIN files)) :
        q \in ReachedFrom(Refs(q), Cardinality(DOMAIN files))

\* What resolving the file at path comes to when the entries are taken in
\* list order: "returns", "fails" at an entry that throws, or "loops" on
\* reaching a file that is being resolved already.
RECURSIVE FileOutcome(_, _)
RECURSIVE EntriesOutcome(_, _, _)
FileOutcome(path, resolving) ==
    IF path \notin DOMAIN files \/ ~Loadable(files[path]) THEN "fails"
    ELSE IF ~HasExtends(files[path]) THEN "returns"
    ELSE IF path \in resolving THEN "loops"
    ELSE EntriesOutcome(path, ExtendsArray(files[path]), resolving \cup {path})

EntriesOutcome(path, exts, resolving) ==
    IF exts = <<>> THEN "returns"
    ELSE LET ext == Head(exts)
             one == IF IsFilePath(ext)
                    THEN FileOutcome(PathResolve(Dirname(path), ext), resolving)
                    ELSE IF "threw" \in DOMAIN PresetEntry(ext) THEN "fails" ELSE "returns"
         IN  IF one = "returns" THEN EntriesOutcome(path, Tail(exts), resolving) ELSE one

Resolving == Op("loadAndResolve")

\* C22 as stated: a resolve of an acyclic configuration ends, and a resolve
\* of a configuration that extends itself, directly or transitively, never
\* ends: it returns nothing and throws nothing.
C22_AsStated ==
    /\ [](Resolving /\ Cyclic(call.filePath) => ret = Pending)
    /\ (Resolving /\ ~Cyclic(call.filePath)) ~> (ret # Pending)

\* C22: a resolve that meets no reference to a file being resolved ends,
\* with a configuration when every entry succeeds and with the ConfigError of
\* the first entry that fails otherwise; a resolve that reaches a reference to
\* a file being resolved, every entry before it having succeeded, never ends:
\* it returns nothing, throws nothing, and the activations pile up as deep as
\* followed, the cached load of the file notwithstanding.  A cyclic
\* configuration with a failing entry ahead of the reference that closes the
\* cycle fails with that entry's ConfigError.
C22_CyclesNeverComplete ==
    /\ [](Resolving =>
            LET outcome == FileOutcome(call.filePath, {})
            IN  /\ outcome = "loops" => ret = Pending
                /\ Returned => outcome = "returns"
                /\ "threw" \in DOMAIN ret =>
                      outcome = "fails" /\ ret.threw.error = "ConfigError")
    /\ (Resolving /\ FileOutcome(call.filePath, {}) # "loops") ~> (ret # Pending)
    /\ (Resolving /\ FileOutcome(call.filePath, {}) = "loops") ~> (Len(stack) = MaxDepth)

\* A resolve of a file that extends itself through another file, as deep as
\* followed, with the file in the cache.
C22_Witness ==
    /\ Resolving /\ ret = Pending
    /\ Len(stack) = MaxDepth
    /\ call.filePath \in DOMAIN loadedConfigs
    /\ call.filePath \notin Refs(call.filePath)
    /\ \E i, j \in 1..Len(stack) : i < j /\ stack[i].basePath = stack[j].basePath

IsSpectral(ext) == ~IsFilePath(ext) /\ NamespaceOf(ext) = <<"spectral">>

\* The document with the spectral entries deleted from its extends array.
WithoutSpectral(config) ==
    [config EXCEPT !.extends = [arr |-> SelectSeq(config.extends.arr, LAMBDA ext : ~IsSpectral(ext))]]

\* A resolve has ended of a document whose extends array holds a spectral entry.
ResolvedWithSpectral ==
    /\ Resolving /\ ret # Pending
    /\ call.filePath \in DOMAIN files
    /\ Loadable(files[call.filePath])
    /\ "extends" \in DOMAIN files[call.filePath]
    /\ "arr" \in DOMAIN files[call.filePath].extends
    /\ \E i \in 1..Len(files[call.filePath].extends.arr) :
          IsSpectral(files[call.filePath].extends.arr[i])

\* C24: an entry of the spectral namespace is skipped without error and
\* without effect: resolving a document whose extends array holds such
\* entries gives what resolving the document with those entries deleted from
\* the array gives, the other entries applied in their order.
C24_SpectralIsSkipped ==
    ResolvedWithSpectral =>
        LET without == ResolveExtendsOn(files, WithoutSpectral(files[call.filePath]),
                                        call.filePath)
        IN  ret = IF "threw" \in DOMAIN without THEN Threw(without.threw)
                  ELSE Value(Put(without.config, "configPath", call.filePath))

\* A resolve that returned, of a document with a spectral entry between two
\* files that set the same rule differently.
C24_Witness ==
    /\ ResolvedWithSpectral /\ Returned
    /\ \E i \in 2..(Len(files[call.filePath].extends.arr) - 1) :
          /\ IsSpectral(files[call.filePath].extends.arr[i])
          /\ IsFilePath(files[call.filePath].extends.arr[i - 1])
          /\ IsFilePath(files[call.filePath].extends.arr[i + 1])
    /\ ret.value.rules.rule1 = Bool(TRUE)
    /\ ret.value.rules.rule2 = Bool(TRUE)

Unset == [unset |-> TRUE]

\* What the file chain of path sets field to explicitly: the file itself if
\* it sets the field, else the last entry of its extends whose own chain
\* sets it; Unset when nothing in the chain does.
RECURSIVE ExplicitIn(_, _)
RECURSIVE LastExplicit(_, _, _)
ExplicitIn(path, field) ==
    IF path \notin DOMAIN files \/ ~Loadable(files[path]) THEN Unset
    ELSE IF field \in DOMAIN files[path] THEN [set |-> files[path][field]]
    ELSE IF ~HasExtends(files[path]) THEN Unset
    ELSE LastExplicit(path, ExtendsArray(files[path]), field)

LastExplicit(path, exts, field) ==
    IF exts = <<>> THEN Unset
    ELSE LET last == exts[Len(exts)]
             here == IF IsFilePath(last)
                     THEN ExplicitIn(PathResolve(Dirname(path), last), field)
                     ELSE Unset
         IN  IF here # Unset THEN here
             ELSE LastExplicit(path, SubSeq(exts, 1, Len(exts) - 1), field)

\* C26: the baseline default only fills the fields nothing in the chain
\* sets: in the result of a resolve each of defaultSeverity, failOnWarnings,
\* showInfo and files that the document or the file chain of one of its
\* entries sets explicitly has the value of the last of them to set it (the
\* document last); a later entry that has an extends of its own and does not
\* set the field leaves the earlier entry's value in place.
C26_AsStated ==
    (Resolving /\ Returned) =>
        \A field \in ScalarKeys :
            LET explicit == ExplicitIn(call.filePath, field)
            IN  explicit # Unset =>
                    field \in DOMAIN ret.value /\ ret.value[field] = explicit.set

-----------------------------------------------------------------------------
(* C29 *)

IsPreset(ext) ==
    ~IsFilePath(ext) /\ NamespaceOf(ext) \in {<<"api-guardian">>, <<"preset">>}

\* The document with the preset entries deleted from its extends.
WithoutPresets(config) ==
    [config EXCEPT !.extends =
        [arr |-> SelectSeq(ExtendsArray(config), LAMBDA ext : ~IsPreset(ext))]]

\* The names of the presets the document extends directly.
PresetsExtended(config) ==
    {NameOf(ExtendsArray(config)[i])[1] :
        i \in {j \in 1..Len(ExtendsArray(config)) : IsPreset(ExtendsArray(config)[j])}}

\* The rule ids the document at path and the files it reaches set.
RuleIdsSetFrom(path) ==
    UNION {DOMAIN MapOf(files[p], "rules") :
              p \in ReachedFrom({path}, MaxDepth) \cap DOMAIN files}

\* The rule ids only presets set.
PresetOnlyRuleIds ==
    UNION {DOMAIN DEFAULT_CONFIG.rulesets[n].rules : n \in DOMAIN DEFAULT_CONFIG.rulesets}
    \ UNION {RuleIdsSetFrom(p) : p \in DOMAIN files}

\* A resolve has returned the configuration of a document that extends a preset.
ResolvedWithPreset ==
    /\ Resolving /\ "value" \in DOMAIN ret
    /\ HasExtends(files[call.filePath])
    /\ PresetsExtended(files[call.filePath]) # {}

-----------------------------------------------------------------------------
(* C30 *)

\* The categories the index lists a rule id under.
ListedUnder(ruleId) == {c \in DOMAIN ruleCategories : ruleId \in ruleCategories[c]}

\* The sum of the values of a map of numbers.
RECURSIVE SumOf(_)
SumOf(counts) ==
    IF DOMAIN counts = {} THEN 0
    ELSE LET c == CHOOSE k \in DOMAIN counts : TRUE
         IN  counts[c] + SumOf([k \in DOMAIN counts \ {c} |-> counts[k]])

\* C30: in every reachable registry state the category index matches the
\* rule map: an id is listed under category c exactly when a rule with that
\* id is registered and its category is c, so each registered id is listed
\* under exactly one category; whenever getStats has just answered, its
\* rulesByCategory sums to its totalRules, which is the number of registered
\* rules, and its enabledRules is at most totalRules; and right after clear
\* the rule map, the category index and the overrides are all empty.
C30_IndexMatchesRules ==
    /\ \A c \in DOMAIN ruleCategories : \A id \in ruleCategories[c] :
          Has(rules, id) /\ Get(rules, id).category = c
    /\ \A i \in 1..Len(rules) :
          /\ ListedUnder(rules[i].id) = {rules[i].category}
          /\ Cardinality(ListedUnder(rules[i].id)) = 1
    /\ Op("getStats") =>
          /\ ret.value.totalRules = Len(rules)
          /\ SumOf(ret.value.rulesByCategory) = ret.value.totalRules
          /\ ret.value.enabledRules <= ret.value.totalRules
    /\ Op("clear") =>
          rules = <<>> /\ DOMAIN ruleCategories = {} /\ DOMAIN overrides = {}

\* getStats has answered for a registry of two rules of one category, one of
\* them disabled by an override.
C30_Witness ==
    /\ Op("getStats")
    /\ ret.value.totalRules = 2
    /\ ret.value.rulesByCategory = [structural |-> 2]
    /\ ret.value.enabledRules = 1
    /\ ret.value.overridesApplied >= 1

====
